---- MODULE Spec2Model ----
(***************************************************************************)
(* State-machine model of src/index.tsx, the research-writing aide: the    *)
(* knowledge store and its ingestion paths, the literature-review          *)
(* pipeline with its draft-version history and viewer, the bibliography    *)
(* extractor, the chat over the store, and the proofreading suggestions    *)
(* of the writing assistant.                                               *)
(*                                                                         *)
(* Text is a sequence of one-character strings; markup that the code       *)
(* writes as a literal is one token, except the markup of the writing      *)
(* editor, which the code searches and rewrites as a string and which is   *)
(* therefore kept token by token.  One action is one run-to-completion     *)
(* step of the JavaScript event loop: a handler from its trigger to its    *)
(* first await, or the continuation of an await up to the next one.        *)
(* The model service and the file reader are the environment: a call       *)
(* returns a value drawn from a small set, or fails.  The editor holds     *)
(* what the program put there; the user's own typing in it is left out.    *)
(***************************************************************************)
EXTENDS Integers, Sequences, FiniteSets, TLC

\* ------------------------------------------------------------------ bounds
MaxSources == 2   \* documents the knowledge store may hold before triggers stop adding
MaxBatch == 2     \* files in one multi-file selection
MaxThemes == 2    \* themes the outline call may return
MaxQuestions == 2 \* questions the user may send to the chat
MaxSuggestions == 2 \* suggestions one proofreading call may return
MaxMatches == 2   \* matches one similarity check may return

\* ------------------------------------------------------------ text helpers
WS == {" ", "\n"}

RECURSIVE TrimStart(_)
TrimStart(s) == IF s = <<>> THEN s
                ELSE IF Head(s) \in WS THEN TrimStart(Tail(s)) ELSE s

RECURSIVE TrimEnd(_)
TrimEnd(s) == IF s = <<>> THEN s
              ELSE IF s[Len(s)] \in WS THEN TrimEnd(SubSeq(s, 1, Len(s) - 1)) ELSE s

\* String.prototype.trim
Trim(s) == TrimEnd(TrimStart(s))

\* Array.prototype.join of an array of texts
RECURSIVE Join(_, _)
Join(parts, sep) == IF parts = <<>> THEN <<>>
                    ELSE IF Len(parts) = 1 THEN parts[1]
                    ELSE parts[1] \o sep \o Join(Tail(parts), sep)

\* the one element of a set that has one: Only({ e(x) : x \in {v} }) is e(v), with v
\* evaluated once
Only(S) == CHOOSE x \in S : TRUE

\* the number of characters of s before the first one that is in `stops`
RunLen(s, stops) ==
    LET at == { k \in 1..Len(s) : s[k] \in stops }
    IN  IF at = {} THEN Len(s) ELSE (CHOOSE k \in at : \A j \in at : k <= j) - 1

\* the number of times a one-step scan has to be doubled to cover n steps
Doublings(n) == CHOOSE k \in 0..n : 2^k >= n /\ \A j \in 0..(k - 1) : 2^j < n

\* s.replace(/\n/g, rep): every character is replaced on its own, so the two halves of
\* the text are replaced independently
RECURSIVE ReplaceNewlines(_, _)
ReplaceNewlines(text, rep) ==
    Only({
        IF s = <<>> THEN <<>>
        ELSE IF Len(s) = 1 THEN (IF s[1] = "\n" THEN rep ELSE s)
        ELSE ReplaceNewlines(SubSeq(s, 1, Len(s) \div 2), rep)
             \o ReplaceNewlines(SubSeq(s, Len(s) \div 2 + 1, Len(s)), rep)
    : s \in {text} })

IsPrefix(s, t) == Len(s) <= Len(t) /\ SubSeq(t, 1, Len(s)) = s

\* String.prototype.includes
Includes(t, s) == \E i \in 0..(Len(t) - Len(s)) : SubSeq(t, i + 1, i + Len(s)) = s

\* String.prototype.startsWith
StartsWith(t, s) == IsPrefix(s, t)

ParaBreak == <<"\n", "\n">>

\* ------------------------------------------------------------- input sets
AuthorC == <<"C">>
AuthorL == <<"L">>
AuthorAmp == <<"A", "&">>
Year9 == <<"9">>

PastedPrefix == <<"Pasted Content">>
Digits == <<"1", "2", "3", "4", "5", "6", "7", "8", "9">>

\* Files the user may select: name, MIME type, the text of a plain file, and for a
\* PDF the text items of each page in page order.
FileA == [name |-> <<"a", ".pdf">>, type |-> "application/pdf", text |-> <<>>,
          pages |-> << << <<"y">> >>, << <<"z">>, <<"w">> >> >>]
FileP == [name |-> PastedPrefix \o <<" ", "2">>, type |-> "text/plain", text |-> <<" ">>,
          pages |-> <<>>]
FileB == [name |-> <<"b", ".txt">>, type |-> "text/plain", text |-> <<"x", " ">>,
          pages |-> <<>>]
FilePool == {FileA, FileB, FileP}

\* a text file with content whose name is that of a second pasted text
FileQ == [name |-> PastedPrefix \o <<" ", "2">>, type |-> "text/plain", text |-> <<"x">>,
          pages |-> <<>>]

\* Multi-file selections: distinct files of one directory, in selection order.
Batches == UNION { { f \in [1..n -> FilePool] : \A i, j \in 1..n : f[i] = f[j] => i = j }
                   : n \in 2..MaxBatch }

\* Texts the user may type or paste into the article text area.
PasteTexts == { <<" ", "p">>, <<" ">> }

\* Results of the metadata-extraction call that satisfy its schema.
AnalysisResponses == { [author |-> a, year |-> Year9, summary |-> <<"s">>, entities |-> <<>>]
                       : a \in {AuthorC, AuthorL, AuthorAmp} }

\* Topics the user may have typed into the review form.
Topics == { <<"q">>, <<" ">> }

\* `(${author}, ${year})`
Citation(author, year) == <<"(">> \o author \o <<",", " ">> \o year \o <<")">>

\* Texts a free-text model call may return.
StageTexts == { <<>>, Citation(AuthorC, Year9) \o <<"\n", "b">> }

\* Texts the concise call may return: those, and texts that cite the other authors.
ConciseDrafts == StageTexts \cup { Citation(AuthorL, Year9) \o Citation(AuthorAmp, Year9),
                                   Citation(AuthorL, Year9) \o <<"\n">>
                                       \o Citation(AuthorC, Year9) }

\* Outlines the outline call may return that satisfy its schema: the themes array
\* (the introduction and conclusion plans only feed later prompts).
Outlines == { [themes |-> [k \in 1..n |-> <<"T", Digits[k]>>]] : n \in 0..MaxThemes }

ReviewLengths == {"detailed", "concise"}

\* Suggestions the proofreading call may return that satisfy its schema: the issue is
\* a word of the draft, a word that also names an element of the editor markup, or a
\* word that occurs nowhere.
SuggestionPool == { [category |-> "Style", issue |-> i, suggestion |-> <<"x">>,
                     explanation |-> <<"e">>] : i \in { <<"b">>, <<"div">>, <<"z">> } }
SuggestionLists == UNION { [1..n -> SuggestionPool] : n \in 0..MaxSuggestions }

\* the suggestions panel without cards, showing the placeholder text `text`
Placeholder(text) == [placeholder |-> text, cards |-> <<>>]

\* the least length of the trimmed draft that handleSimilarityCheck accepts
MinSimilarityLength == 50

\* Drafts long enough, by one character or not at all, for a similarity check; a run
\* of letters that no searched text splits is held as one element.  The long draft
\* has two paragraphs, the word "b" in both.
Word22 == "aaaaaaaaaaaaaaaaaaaaaa"
Word23 == "aaaaaaaaaaaaaaaaaaaaaaa"
DraftLong == <<Word22, " ", "b", "\n", "b", "c", Word23>>
DraftShort == <<Word22, " ", "b", " ", "c", Word23>>
SimilarityDrafts == { DraftLong, DraftShort }

\* Matches the similarity call may return that satisfy its schema: the sentence is in
\* both paragraphs, in the second only, or nowhere; the passage of the source is the
\* sentence itself (a direct copy).
MatchPool == { [original_sentence |-> t, similar_passage_from_source |-> t,
                source_filename |-> <<"f">>, rewritten_suggestion |-> <<"r", "&">>]
               : t \in { <<"b">>, <<"b", "c">>, <<"z">> } }
SimilarityResults == UNION { [1..n -> MatchPool] : n \in 0..MaxMatches }

\* Values the question field may hold when the chat form is submitted.
Questions == { <<"q">>, <<" ">> }

NoPending == [fileName |-> <<>>, articleText |-> <<>>]

\* chat when it is null: a session has sent at least one message
NoChat == [instruction |-> <<>>, sent |-> 0]

\* ------------------------------------------------------------------ state
VARIABLES
    isLoading,             \* the busy flag
    disabled,              \* the disabled attribute of each control setLoading drives
    knowledgeSources,      \* the knowledge store
    currentFileName,       \* name of the single selected file, or empty
    articleInput,          \* value of the article text area
    chat,                  \* the chat session, or NoChat
    kbSectionsHidden,      \* knowledge-base, review and Q&A sections still hidden
    pc,                    \* the await the one running handler is suspended at
    files,                 \* the FileList of the running file selection
    fileIdx,               \* 1-based position of the batch loop in files
    pending,               \* arguments of the analyzeAndStoreDocument call in flight
    draftHistory,          \* the draft versions
    reviewDraftOutput,     \* innerHTML of the draft output pane
    reviewProgressLog,     \* the progress log entries
    draftVersionControls,  \* the version buttons: label and active class
    writingEditor,         \* innerHTML of the writing editor
    referencesList,        \* the rendered bibliography lines
    referencesHidden,      \* bibliography container hidden
    writingAssistantHidden,\* writing assistant section hidden
    gen,                   \* locals of the running generateDetailedReview
    genCalls,              \* model calls issued since the last review submission
    analysisSuggestions,   \* the pending proofreading suggestions
    suggestionsPanel,      \* the suggestion cards: the data-index of each card's buttons
    chatRequests,          \* the sendMessage calls so far, as the service saw them
    chatContainer,         \* the messages shown in the chat pane
    activeSimilarityHighlight, \* the region the similarity tooltip is open for (its
                               \* position among the regions of the editor), or 0
    simResults             \* the matches the last settled similarity call returned

ingestVars == <<knowledgeSources, currentFileName, articleInput, chat, kbSectionsHidden,
                files, fileIdx, pending>>
reviewVars == <<draftHistory, reviewDraftOutput, reviewProgressLog, draftVersionControls,
                writingEditor, referencesList, referencesHidden, writingAssistantHidden,
                gen, genCalls>>
assistVars == <<analysisSuggestions, suggestionsPanel, chatRequests, chatContainer>>
stateVars == <<isLoading, disabled, pc, ingestVars, reviewVars, assistVars>>
vars == <<stateVars, activeSimilarityHighlight, simResults>>

NoGen == [themes |-> <<>>, fullDraftParts |-> <<>>, i |-> 0]

\* ------------------------------------------------------------- setLoading
\* faulty variant of setLoading: the similarity button is left as it is
ControlsButOne(loading, input, ks) ==
    [processButton |-> loading \/ input = <<>>,
     fileInput |-> loading,
     generateReviewButton |-> loading,
     analyzeTextButton |-> loading,
     similarityCheckButton |-> FALSE,
     questionInput |-> loading \/ Len(ks) = 0,
     chatButton |-> loading \/ Len(ks) = 0]

Controls(loading, input, ks) ==
    [processButton |-> loading \/ input = <<>>,
     fileInput |-> loading,
     generateReviewButton |-> loading,
     analyzeTextButton |-> loading,
     similarityCheckButton |-> loading,
     questionInput |-> loading \/ Len(ks) = 0,
     chatButton |-> loading \/ Len(ks) = 0]

\* setLoading(loading), called when the text area holds input and the store is ks
SetLoading(loading, input, ks) ==
    /\ isLoading' = loading
    /\ disabled' = Controls(loading, input, ks)

\* ---------------------------------------------------------------- ingestion
\* Every trigger below that is a click (or follows one, as the change event of the
\* file input does) also reaches the click listener of the document, which closes
\* the similarity tooltip: activeSimilarityHighlight becomes null.
\* faulty variants of the duplicate check: one that never matches, one that looks at
\* the most recently stored document only
IsDuplicateNever(ks, fileName) == FALSE
IsDuplicateLastOnly(ks, fileName) == ks # <<>> /\ ks[Len(ks)].fileName = fileName

IsDuplicate(ks, fileName) == \E i \in 1..Len(ks) : ks[i].fileName = fileName

\* faulty variant of the reset: the session survives
KeepChat(session) == session

\* chat = null of analyzeAndStoreDocument, executed before its model call
DiscardChat(session) == NoChat

\* knowledgeSources.push({...}) of analyzeAndStoreDocument
StoreDocument(ks, fileName, articleText, parsed) ==
    Append(ks, [fileName |-> fileName, author |-> parsed.author, year |-> parsed.year,
                summary |-> parsed.summary, entities |-> parsed.entities,
                fullText |-> articleText])

\* `Pasted Content ${n + 1}`, n the stored names that start with "Pasted Content"
PastedName(ks) ==
    LET n == Cardinality({ i \in 1..Len(ks) : StartsWith(ks[i].fileName, PastedPrefix) })
    IN  PastedPrefix \o <<" ", Digits[n + 1]>>

\* items.map(item => item.str).join(' ') + '\n\n' for each page, concatenated
RECURSIVE PdfText(_)
PdfText(pages) == IF pages = <<>> THEN <<>>
                  ELSE Join(Head(pages), <<" ">>) \o ParaBreak \o PdfText(Tail(pages))

\* the fullText a file read yields
ExtractText(file) == IF file.type = "application/pdf" THEN PdfText(file.pages) ELSE file.text

\* names of fs not yet stored
NewNames(ks, fs) == { fs[i].name : i \in 1..Len(fs) } \ { ks[i].fileName : i \in 1..Len(ks) }

Init ==
    /\ isLoading = FALSE
    /\ disabled = Controls(FALSE, <<>>, <<>>)
    /\ knowledgeSources = <<>>
    /\ currentFileName = <<>>
    /\ articleInput = <<>>
    /\ chat = NoChat
    /\ kbSectionsHidden = TRUE
    /\ pc = "idle"
    /\ files = <<>>
    /\ fileIdx = 0
    /\ pending = NoPending
    /\ draftHistory = <<>>
    /\ reviewDraftOutput = <<>>
    /\ reviewProgressLog = <<>>
    /\ draftVersionControls = <<>>
    /\ writingEditor = <<>>
    /\ referencesList = <<>>
    /\ referencesHidden = TRUE
    /\ writingAssistantHidden = TRUE
    /\ gen = NoGen
    /\ genCalls = <<>>
    /\ analysisSuggestions = <<>>
    /\ suggestionsPanel = Placeholder(<<>>)
    /\ chatRequests = <<>>
    /\ chatContainer = <<>>
    /\ activeSimilarityHighlight = 0
    /\ simResults = <<>>

\* The user types or pastes into the article text area (no listener is attached).
TypeArticle(t) ==
    /\ t # articleInput
    /\ articleInput' = t
    /\ UNCHANGED <<isLoading, disabled, pc, knowledgeSources, currentFileName, chat,
                   kbSectionsHidden, files, fileIdx, pending, reviewVars, assistVars>>
    /\ UNCHANGED <<activeSimilarityHighlight, simResults>>

\* handleProcessArticle up to the await of analyzeAndStoreDocument's model call
HandleProcessArticle ==
    /\ ~disabled.processButton
    /\ LET articleText == Trim(articleInput)
           docName == IF currentFileName # <<>> THEN currentFileName
                      ELSE PastedName(knowledgeSources)
       IN  IF articleText = <<>> \/ IsDuplicate(knowledgeSources, docName)
           THEN UNCHANGED stateVars
           ELSE /\ Len(knowledgeSources) < MaxSources
                /\ SetLoading(TRUE, articleInput, knowledgeSources)
                /\ chat' = DiscardChat(chat)
                /\ pending' = [fileName |-> docName, articleText |-> articleText]
                /\ pc' = "processAnalyze"
                /\ UNCHANGED <<knowledgeSources, currentFileName, articleInput,
                               kbSectionsHidden, files, fileIdx, reviewVars, assistVars>>
    /\ activeSimilarityHighlight' = 0
    /\ UNCHANGED simResults

\* the model call of handleProcessArticle settles: push and clear inputs, or alert
ProcessAnalyzeReturns(ok, parsed) ==
    /\ pc = "processAnalyze"
    /\ IF ok
       THEN /\ knowledgeSources' = StoreDocument(knowledgeSources, pending.fileName,
                                                 pending.articleText, parsed)
            /\ kbSectionsHidden' = FALSE
            /\ articleInput' = <<>>
            /\ currentFileName' = <<>>
       ELSE UNCHANGED <<knowledgeSources, kbSectionsHidden, articleInput, currentFileName>>
    /\ SetLoading(FALSE, articleInput', knowledgeSources')
    /\ pending' = NoPending
    /\ pc' = "idle"
    /\ UNCHANGED <<chat, files, fileIdx, reviewVars, assistVars>>
    /\ UNCHANGED <<activeSimilarityHighlight, simResults>>

\* faulty variant of the loop: the batch is over after any settled attempt
BatchAdvanceStopping(ks) ==
    /\ isLoading' = FALSE
    /\ disabled' = [Controls(FALSE, articleInput, ks) EXCEPT !.processButton = FALSE]
    /\ pc' = "idle"
    /\ files' = <<>>
    /\ fileIdx' = 0

\* the rest of the batch loop of handleFileSelect after the attempt for files[fileIdx]
\* has settled with the store ks: the next iteration up to its await, or the cleanup
BatchAdvance(ks) ==
    IF fileIdx < Len(files)
    THEN /\ fileIdx' = fileIdx + 1
         /\ SetLoading(TRUE, articleInput, ks)
         /\ pc' = "batchRead"
         /\ UNCHANGED files
    ELSE /\ isLoading' = FALSE
         /\ disabled' = [Controls(FALSE, articleInput, ks) EXCEPT !.processButton = FALSE]
         /\ pc' = "idle"
         /\ files' = <<>>
         /\ fileIdx' = 0

\* handleFileSelect up to its first await (the read of the first file)
HandleFileSelect(fs) ==
    /\ ~disabled.fileInput
    /\ Len(knowledgeSources) + Cardinality(NewNames(knowledgeSources, fs)) <= MaxSources
    /\ IF Len(fs) = 0
       THEN /\ currentFileName' = <<>>
            /\ UNCHANGED <<isLoading, disabled, pc, articleInput, files, fileIdx>>
       ELSE IF Len(fs) = 1
       THEN /\ currentFileName' = fs[1].name
            /\ articleInput' = <<>>
            /\ SetLoading(TRUE, <<>>, knowledgeSources)
            /\ files' = fs
            /\ pc' = "parse"
            /\ UNCHANGED fileIdx
       ELSE /\ SetLoading(TRUE, articleInput, knowledgeSources)
            /\ files' = fs
            /\ fileIdx' = 1
            /\ pc' = "batchRead"
            /\ UNCHANGED <<currentFileName, articleInput>>
    /\ UNCHANGED <<knowledgeSources, chat, kbSectionsHidden, pending, reviewVars, assistVars>>
    /\ activeSimilarityHighlight' = 0
    /\ UNCHANGED simResults

\* the read of the single selected file settles
ParseReturns(ok) ==
    /\ pc = "parse"
    /\ IF ok
       THEN /\ articleInput' = Trim(ExtractText(files[1]))
            /\ UNCHANGED currentFileName
       ELSE /\ currentFileName' = <<>>
            /\ UNCHANGED articleInput
    /\ SetLoading(FALSE, articleInput', knowledgeSources)
    /\ files' = <<>>
    /\ pc' = "idle"
    /\ UNCHANGED <<knowledgeSources, chat, kbSectionsHidden, fileIdx, pending, reviewVars, assistVars>>
    /\ UNCHANGED <<activeSimilarityHighlight, simResults>>

\* the read of batch file files[fileIdx] settles: analyzeAndStoreDocument up to its
\* model call, or (read failure, duplicate name) on to the next file
BatchReadReturns(ok) ==
    /\ pc = "batchRead"
    /\ LET file == files[fileIdx]
       IN  IF ok /\ ~IsDuplicate(knowledgeSources, file.name)
           THEN /\ chat' = DiscardChat(chat)
                /\ pending' = [fileName |-> file.name,
                               articleText |-> Trim(ExtractText(file))]
                /\ pc' = "batchAnalyze"
                /\ UNCHANGED <<isLoading, disabled, files, fileIdx>>
           ELSE /\ BatchAdvance(knowledgeSources)
                /\ UNCHANGED <<chat, pending>>
    /\ UNCHANGED <<knowledgeSources, currentFileName, articleInput, kbSectionsHidden,
                   reviewVars, assistVars>>
    /\ UNCHANGED <<activeSimilarityHighlight, simResults>>

\* the model call for batch file files[fileIdx] settles: push, or alert; then the next file
BatchAnalyzeReturns(ok, parsed) ==
    /\ pc = "batchAnalyze"
    /\ IF ok
       THEN /\ knowledgeSources' = StoreDocument(knowledgeSources, pending.fileName,
                                                 pending.articleText, parsed)
            /\ kbSectionsHidden' = FALSE
       ELSE UNCHANGED <<knowledgeSources, kbSectionsHidden>>
    /\ BatchAdvance(knowledgeSources')
    /\ pending' = NoPending
    /\ UNCHANGED <<currentFileName, articleInput, chat, reviewVars, assistVars>>
    /\ UNCHANGED <<activeSimilarityHighlight, simResults>>

FileSelections == {<<>>} \cup { <<f>> : f \in FilePool } \cup Batches

\* ------------------------------------------------------------ review pipeline
LogEntry(step, desc) == [step |-> step, desc |-> desc]

\* addProgressLog
AddProgressLog(log, entry) == Append(log, entry)

\* the outline rendered as HTML
RECURSIVE ThemeItems(_)
ThemeItems(themes) == IF themes = <<>> THEN <<>>
                      ELSE <<"<li>">> \o Head(themes) \o <<"</li>">> \o ThemeItems(Tail(themes))

OutlineHtml(themes) ==
    <<"<h3>Outline</h3><ul><li>Introduction</li><li>Body Paragraphs:<ul>">>
    \o ThemeItems(themes) \o <<"</ul></li><li>Conclusion</li></ul>">>

\* fullDraftParts.map(p => p.replace(/\n/g, '<br>')).join('<br><br>')
PartsHtml(parts) ==
    Join([k \in 1..Len(parts) |-> ReplaceNewlines(parts[k], <<"<br>">>)], <<"<br>", "<br>">>)

\* faulty variant of the button text: intermediate steps numbered from the 1-based position
VersionLabelOneBased(index, len) ==
    IF index = 0 THEN <<"Outline">>
    ELSE IF index = len - 1 THEN <<"Final">>
    ELSE <<"Step", " ", Digits[index + 1]>>

\* the text of a version button (index is 0-based, len the history length)
VersionLabel(index, len) ==
    IF index = 0 THEN <<"Outline">>
    ELSE IF index = len - 1 THEN <<"Final">>
    ELSE <<"Step", " ", Digits[index]>>

\* renderDraftViewer: one button per version, the last one active
RenderDraftViewer(history) ==
    [k \in 1..Len(history) |->
        [label |-> VersionLabel(k - 1, Len(history)), index |-> k - 1,
         active |-> (k = Len(history))]]

\* Markup of the writing editor is written token by token: "<", "/", the tag name and
\* ">" are tokens, and so are "&", the name and ";" of a character reference.
Tag(name) == <<"<", name, ">">>
CloseTag(name) == <<"<", "/", name, ">">>
TagNames == {"div", "strong", "span"}
EntityNames == {"amp", "lt", "gt"}
CharRef(name) == <<"&", name, ";">>

\* The start tag of a highlighted region: the class and the two data attributes, the
\* attribute values token by token between their quotes.
ClassAttr == " class=\"similarity-highlight\""
OrigAttr == " data-original=\""
SuggAttr == " data-suggestion=\""
Quote == "\""
SpanOpen(original, suggestion) ==
    <<"<", "span", ClassAttr, OrigAttr>> \o original \o <<Quote, SuggAttr>> \o suggestion
    \o <<Quote, ">">>

\* position of the first token `tok` in s, or 0
FirstIndex(s, tok) ==
    LET at == { k \in 1..Len(s) : s[k] = tok }
    IN  IF at = {} THEN 0 ELSE CHOOSE k \in at : \A j \in at : k <= j

NoSpan == [ok |-> FALSE, original |-> <<>>, suggestion |-> <<>>, len |-> 0]

\* the region start tag that `html` begins with: its attribute values and its length
ParseSpanOpen(html) ==
    IF Len(html) < 4 \/ SubSeq(html, 1, 4) # <<"<", "span", ClassAttr, OrigAttr>> THEN NoSpan
    ELSE LET r1 == SubSeq(html, 5, Len(html))
             q1 == FirstIndex(r1, Quote)
         IN  IF q1 = 0 \/ Len(r1) < q1 + 1 \/ r1[q1 + 1] # SuggAttr THEN NoSpan
             ELSE LET r2 == SubSeq(r1, q1 + 2, Len(r1))
                      q2 == FirstIndex(r2, Quote)
                  IN  IF q2 = 0 \/ Len(r2) < q2 + 1 \/ r2[q2 + 1] # ">" THEN NoSpan
                      ELSE [ok |-> TRUE, original |-> SubSeq(r1, 1, q1 - 1),
                            suggestion |-> SubSeq(r2, 1, q2 - 1), len |-> q1 + q2 + 6]

\* the characters that are not plain text in markup
MarkupChars == {"<", ">", "&"}

\* the close tags the parser supplies for the open elements `open` (innermost last)
\* down to and including position `from`
RECURSIVE CloseDownTo(_, _)
CloseDownTo(open, from) ==
    IF Len(open) < from THEN <<>>
    ELSE CloseTag(open[Len(open)]) \o CloseDownTo(SubSeq(open, 1, Len(open) - 1), from)

\* one step of the parser at the front of the non-empty `html` with the open elements
\* `open`: what it serialises (out), how much of `html` it consumes (len) and the open
\* elements afterwards.  A "<" or ">" that belongs to no tag and a "&" that starts no
\* character reference are text and come back escaped, an end tag without its element
\* is dropped.
ReserialiseStep(html, open) ==
    IF Head(html) \notin MarkupChars
    THEN [out |-> SubSeq(html, 1, RunLen(html, MarkupChars)),
          len |-> RunLen(html, MarkupChars), open |-> open]
    ELSE IF ParseSpanOpen(html).ok
    THEN [out |-> SubSeq(html, 1, ParseSpanOpen(html).len),
          len |-> ParseSpanOpen(html).len, open |-> Append(open, "span")]
    ELSE IF Len(html) >= 3 /\ html[1] = "<" /\ html[2] \in TagNames /\ html[3] = ">"
    THEN [out |-> Tag(html[2]), len |-> 3, open |-> Append(open, html[2])]
    ELSE IF Len(html) >= 4 /\ html[1] = "<" /\ html[2] = "/" /\ html[3] \in TagNames
            /\ html[4] = ">"
    THEN LET at == { k \in 1..Len(open) : open[k] = html[3] }
         IN  IF at = {} THEN [out |-> <<>>, len |-> 4, open |-> open]
             ELSE LET k == CHOOSE x \in at : \A y \in at : y <= x
                  IN  [out |-> CloseDownTo(open, k), len |-> 4,
                       open |-> SubSeq(open, 1, k - 1)]
    ELSE IF Len(html) >= 3 /\ html[1] = "&" /\ html[2] \in EntityNames /\ html[3] = ";"
    THEN [out |-> CharRef(html[2]), len |-> 3, open |-> open]
    ELSE [out |-> IF Head(html) = "&" THEN CharRef("amp")
                  ELSE IF Head(html) = "<" THEN CharRef("lt")
                  ELSE IF Head(html) = ">" THEN CharRef("gt")
                  ELSE <<Head(html)>>,
          len |-> 1, open |-> open]

\* up to 2^k steps of the parser from the state `from`: the markup serialised so far
\* (out), the markup still to parse (rest) and the open elements
RECURSIVE ReserialiseRun(_, _)
ReserialiseRun(from, doublings) ==
    Only({
        IF s.rest = <<>> THEN s
        ELSE IF k = 0
        THEN Only({ [out |-> s.out \o step.out,
                     rest |-> SubSeq(s.rest, step.len + 1, Len(s.rest)),
                     open |-> step.open]
                  : step \in {ReserialiseStep(s.rest, s.open)} })
        ELSE ReserialiseRun(ReserialiseRun(s, k - 1), k - 1)
    : s \in {from}, k \in {doublings} })

\* element.innerHTML read back after `markup` was assigned to it: the fragment is parsed
\* (open elements in `open`) and serialised again; an element left open is closed.
Reserialise(markup, open) ==
    Only({ end.out \o CloseDownTo(end.open, 1)
         : end \in { ReserialiseRun([out |-> <<>>, rest |-> html, open |-> open],
                                    Doublings(Len(html))) : html \in {markup} } })

InnerHTML(html) == Reserialise(html, <<>>)

\* the character a character reference stands for
RefChar(name) == IF name = "amp" THEN "&" ELSE IF name = "lt" THEN "<" ELSE ">"

\* one step of reading the text of the non-empty serialised `html`: the text it
\* yields (out) and how much of `html` it consumes (len).  Tags are dropped, character
\* references decoded, and the end of a div block is a line break.
BlockTextStep(html) ==
    IF Head(html) \notin MarkupChars
    THEN [out |-> SubSeq(html, 1, RunLen(html, MarkupChars)),
          len |-> RunLen(html, MarkupChars)]
    ELSE IF ParseSpanOpen(html).ok
    THEN [out |-> <<>>, len |-> ParseSpanOpen(html).len]
    ELSE IF Len(html) >= 3 /\ html[1] = "<" /\ html[2] \in TagNames /\ html[3] = ">"
    THEN [out |-> <<>>, len |-> 3]
    ELSE IF Len(html) >= 4 /\ html[1] = "<" /\ html[2] = "/" /\ html[3] \in TagNames
            /\ html[4] = ">"
    THEN [out |-> IF html[3] = "div" THEN <<"\n">> ELSE <<>>, len |-> 4]
    ELSE IF Len(html) >= 3 /\ html[1] = "&" /\ html[2] \in EntityNames /\ html[3] = ";"
    THEN [out |-> <<RefChar(html[2])>>, len |-> 3]
    ELSE [out |-> <<Head(html)>>, len |-> 1]

\* up to 2^k steps of reading text from the state `from`: the text read so far (out)
\* and the markup still to read (rest)
RECURSIVE BlockTextRun(_, _)
BlockTextRun(from, doublings) ==
    Only({
        IF s.rest = <<>> THEN s
        ELSE IF k = 0
        THEN Only({ [out |-> s.out \o step.out,
                     rest |-> SubSeq(s.rest, step.len + 1, Len(s.rest))]
                  : step \in {BlockTextStep(s.rest)} })
        ELSE BlockTextRun(BlockTextRun(s, k - 1), k - 1)
    : s \in {from}, k \in {doublings} })

\* element.innerText of serialised markup, before the last line break is dropped
BlockText(markup) ==
    Only({ BlockTextRun([out |-> <<>>, rest |-> html], Doublings(Len(html))).out
         : html \in {markup} })

InnerText(html) ==
    LET t == BlockText(html)
    IN  IF t # <<>> /\ t[Len(t)] = "\n" THEN SubSeq(t, 1, Len(t) - 1) ELSE t

\* the text of a text node from its serialised form, and back
\* one step of decoding the non-empty serialised run `run`: the text it yields (out)
\* and how much of `run` it consumes (len)
DecodeStep(run) ==
    IF Head(run) # "&"
    THEN [out |-> SubSeq(run, 1, RunLen(run, {"&"})), len |-> RunLen(run, {"&"})]
    ELSE IF Len(run) >= 3 /\ run[1] = "&" /\ run[2] \in EntityNames /\ run[3] = ";"
    THEN [out |-> <<RefChar(run[2])>>, len |-> 3]
    ELSE [out |-> <<Head(run)>>, len |-> 1]

\* up to 2^k steps of decoding from the state `from`
RECURSIVE DecodeRun(_, _)
DecodeRun(from, doublings) ==
    Only({
        IF s.rest = <<>> THEN s
        ELSE IF k = 0
        THEN Only({ [out |-> s.out \o step.out,
                     rest |-> SubSeq(s.rest, step.len + 1, Len(s.rest))]
                  : step \in {DecodeStep(s.rest)} })
        ELSE DecodeRun(DecodeRun(s, k - 1), k - 1)
    : s \in {from}, k \in {doublings} })

Decode(markup) ==
    Only({ DecodeRun([out |-> <<>>, rest |-> run], Doublings(Len(run))).out
         : run \in {markup} })

\* every character is encoded on its own, so the two halves of the text are encoded
\* independently
RECURSIVE Encode(_)
Encode(value) ==
    Only({
        IF text = <<>> THEN <<>>
        ELSE IF Len(text) = 1
        THEN (IF Head(text) = "&" THEN CharRef("amp")
              ELSE IF Head(text) = "<" THEN CharRef("lt")
              ELSE IF Head(text) = ">" THEN CharRef("gt")
              ELSE text)
        ELSE Encode(SubSeq(text, 1, Len(text) \div 2))
             \o Encode(SubSeq(text, Len(text) \div 2 + 1, Len(text)))
    : text \in {value} })

\* length of the tag that serialised markup begins with
TagLen(html) == IF ParseSpanOpen(html).ok THEN ParseSpanOpen(html).len
                ELSE IF html[2] = "/" THEN 4 ELSE 3

\* length of the text node that serialised markup begins with
TextRunLen(html) == LET lt == FirstIndex(html, "<") IN IF lt = 0 THEN Len(html) ELSE lt - 1

\* a.localeCompare(b) <= 0 on the letters the model uses
LetterOrder == <<"&", "A", "C", "L">>
LetterRank(c) == CHOOSE k \in 1..Len(LetterOrder) : LetterOrder[k] = c
RECURSIVE LocaleLeq(_, _)
LocaleLeq(a, b) == IF a = <<>> THEN TRUE
                   ELSE IF b = <<>> THEN FALSE
                   ELSE IF Head(a) = Head(b) THEN LocaleLeq(Tail(a), Tail(b))
                   ELSE LetterRank(Head(a)) < LetterRank(Head(b))

\* one step of the stable sort by author
RECURSIVE InsertByAuthor(_, _)
InsertByAuthor(sorted, x) ==
    IF sorted = <<>> THEN <<x>>
    ELSE IF LocaleLeq(Head(sorted).author, x.author)
         THEN <<Head(sorted)>> \o InsertByAuthor(Tail(sorted), x)
         ELSE <<x>> \o sorted

\* faulty variant of the sort: the cited sources stay in store order
SortByAuthorStoreOrder(xs) == xs

RECURSIVE SortByAuthor(_)
SortByAuthor(xs) == IF xs = <<>> THEN <<>>
                    ELSE InsertByAuthor(SortByAuthor(SubSeq(xs, 1, Len(xs) - 1)), xs[Len(xs)])

\* fileName.replace(/\.(txt|pdf|md)$/i, '')
StripExtension(name) ==
    IF name # <<>> /\ name[Len(name)] \in {".txt", ".pdf", ".md", ".TXT", ".PDF", ".MD"}
    THEN SubSeq(name, 1, Len(name) - 1) ELSE name

\* `${author}. (${year}). ${title}.`
ReferenceLine(source) ==
    source.author \o <<".", " ", "(">> \o source.year \o <<")", ".", " ">>
    \o StripExtension(source.fileName) \o <<".">>

\* the cited sources of generateBibliography, in store order, one per identifier
RECURSIVE CitedSources(_, _, _)
CitedSources(finalDraft, ks, cited) ==
    IF ks = <<>> THEN cited
    ELSE LET source == Head(ks)
         IN  CitedSources(finalDraft, Tail(ks),
                 IF /\ Includes(finalDraft, Citation(source.author, source.year))
                    /\ ~\E k \in 1..Len(cited) : cited[k].fileName = source.fileName
                 THEN Append(cited, source) ELSE cited)

\* generateBibliography: the reference lines, and whether the container is hidden
GenerateBibliography(editorHtml, ks) ==
    LET cited == CitedSources(editorHtml, ks, <<>>)
        sorted == SortByAuthor(cited)
    IN  [list |-> [k \in 1..Len(sorted) |-> ReferenceLine(sorted[k])],
         hidden |-> (Len(cited) = 0)]

\* faulty variant of the reset: the history is kept
KeptHistory(history) == history

\* draftHistory = [] of handleGenerateReview's reset
ClearedHistory(history) == <<>>

\* handleGenerateReview up to the first await (the outline call or the concise call)
HandleGenerateReview(topic, reviewLength) ==
    /\ ~disabled.generateReviewButton
    /\ ~kbSectionsHidden
    /\ IF Trim(topic) = <<>>
       THEN UNCHANGED stateVars
       ELSE /\ writingAssistantHidden' = TRUE
            /\ reviewDraftOutput' = <<>>
            /\ draftVersionControls' = <<>>
            /\ draftHistory' = ClearedHistory(draftHistory)
            /\ referencesHidden' = TRUE
            /\ referencesList' = <<>>
            /\ gen' = NoGen
            /\ SetLoading(TRUE, articleInput, knowledgeSources)
            /\ IF reviewLength = "detailed"
               THEN /\ reviewProgressLog' = AddProgressLog(<<>>,
                           LogEntry(1, <<"Creating a structured outline...">>))
                    /\ genCalls' = <<"outline">>
                    /\ pc' = "outline"
               ELSE /\ reviewProgressLog' = AddProgressLog(<<>>,
                           LogEntry(1, <<"Generating concise draft...">>))
                    /\ genCalls' = <<"concise">>
                    /\ pc' = "concise"
            /\ UNCHANGED <<ingestVars, assistVars, writingEditor>>
    /\ activeSimilarityHighlight' = 0
    /\ UNCHANGED simResults

\* faulty variant of the failure path: the partial draft is put into the editor
AbortReviewCommitting ==
    /\ reviewProgressLog' = AddProgressLog(reviewProgressLog,
                                LogEntry(0, <<"An error occurred during generation.">>))
    /\ writingEditor' = IF draftHistory = <<>> THEN <<>>
                        ELSE InnerHTML(draftHistory[Len(draftHistory)])
    /\ SetLoading(FALSE, articleInput, knowledgeSources)
    /\ gen' = NoGen
    /\ pc' = "idle"
    /\ UNCHANGED <<ingestVars, assistVars, draftHistory, reviewDraftOutput, draftVersionControls,
                   referencesList, referencesHidden, writingAssistantHidden, genCalls>>

\* catch and finally of handleGenerateReview after a stage call failed
AbortReview ==
    /\ reviewProgressLog' = AddProgressLog(reviewProgressLog,
                                LogEntry(0, <<"An error occurred during generation.">>))
    /\ SetLoading(FALSE, articleInput, knowledgeSources)
    /\ gen' = NoGen
    /\ pc' = "idle"
    /\ UNCHANGED <<ingestVars, assistVars, draftHistory, reviewDraftOutput, draftVersionControls,
                   writingEditor, referencesList, referencesHidden,
                   writingAssistantHidden, genCalls>>

\* the rest of handleGenerateReview's try block once the generator returned with
\* the history `history` and the log `log`
FinishReview(history, log) ==
    LET finalDraft == IF history = <<>> THEN <<>> ELSE history[Len(history)]
        editor == InnerHTML(Tag("div")
                            \o ReplaceNewlines(finalDraft, CloseTag("div") \o Tag("div"))
                            \o CloseTag("div"))
        bib == GenerateBibliography(editor, knowledgeSources)
    IN  /\ reviewProgressLog' = AddProgressLog(log, LogEntry(0, <<"Final Draft Generated.">>))
        /\ draftVersionControls' = RenderDraftViewer(history)
        /\ writingEditor' = editor
        /\ referencesList' = bib.list
        /\ referencesHidden' = bib.hidden
        /\ writingAssistantHidden' = FALSE
        /\ SetLoading(FALSE, articleInput, knowledgeSources)
        /\ gen' = NoGen
        /\ pc' = "idle"

\* faulty variant of the stage start: the theme entries are numbered from 2
BeginNextStageMisnumbered(themes, parts, i, log) ==
    /\ SetLoading(TRUE, articleInput, knowledgeSources)
    /\ gen' = [themes |-> themes, fullDraftParts |-> parts, i |-> i]
    /\ IF i < Len(themes)
       THEN /\ reviewProgressLog' = AddProgressLog(log,
                    LogEntry(2 + i, <<"Developing theme: ">> \o themes[i + 1]))
            /\ genCalls' = Append(genCalls, "theme")
            /\ pc' = "theme"
       ELSE /\ reviewProgressLog' = AddProgressLog(log,
                    LogEntry(3 + Len(themes), <<"Writing the conclusion...">>))
            /\ genCalls' = Append(genCalls, "conclusion")
            /\ pc' = "conclusion"

\* generateDetailedReview from the end of a stage to the await of the next call: the
\* theme at 0-based position i when there is one, else the conclusion
BeginNextStage(themes, parts, i, log) ==
    /\ SetLoading(TRUE, articleInput, knowledgeSources)
    /\ gen' = [themes |-> themes, fullDraftParts |-> parts, i |-> i]
    /\ IF i < Len(themes)
       THEN /\ reviewProgressLog' = AddProgressLog(log,
                    LogEntry(3 + i, <<"Developing theme: ">> \o themes[i + 1]))
            /\ genCalls' = Append(genCalls, "theme")
            /\ pc' = "theme"
       ELSE /\ reviewProgressLog' = AddProgressLog(log,
                    LogEntry(3 + Len(themes), <<"Writing the conclusion...">>))
            /\ genCalls' = Append(genCalls, "conclusion")
            /\ pc' = "conclusion"

\* the concise call settles
ConciseReturns(ok, draft) ==
    /\ pc = "concise"
    /\ IF ok
       THEN /\ draftHistory' = Append(draftHistory, draft)
            /\ reviewDraftOutput' = ReplaceNewlines(draft, <<"<br>">>)
            /\ FinishReview(draftHistory',
                   AddProgressLog(reviewProgressLog, LogEntry(0, <<"Concise draft created.">>)))
            /\ UNCHANGED <<ingestVars, assistVars, genCalls>>
       ELSE AbortReview
    /\ UNCHANGED <<activeSimilarityHighlight, simResults>>

\* the outline call settles
OutlineReturns(ok, outline) ==
    /\ pc = "outline"
    /\ IF ok
       THEN /\ draftHistory' = Append(draftHistory, OutlineHtml(outline.themes))
            /\ reviewDraftOutput' = OutlineHtml(outline.themes)
            /\ reviewProgressLog' = AddProgressLog(
                   AddProgressLog(reviewProgressLog,
                       LogEntry(0, <<"Outline created. Now writing sections...">>)),
                   LogEntry(2, <<"Writing the introduction...">>))
            /\ SetLoading(TRUE, articleInput, knowledgeSources)
            /\ gen' = [themes |-> outline.themes, fullDraftParts |-> <<>>, i |-> 0]
            /\ genCalls' = Append(genCalls, "introduction")
            /\ pc' = "intro"
            /\ UNCHANGED <<ingestVars, assistVars, draftVersionControls, writingEditor, referencesList,
                           referencesHidden, writingAssistantHidden>>
       ELSE AbortReview
    /\ UNCHANGED <<activeSimilarityHighlight, simResults>>

\* faulty variants of the push: the last version is overwritten; the new part alone
\* is pushed
PushPartReplacing(text) ==
    LET parts == Append(gen.fullDraftParts, text)
    IN  /\ draftHistory' = [draftHistory EXCEPT ![Len(draftHistory)] = Join(parts, ParaBreak)]
        /\ reviewDraftOutput' = PartsHtml(parts)
PushPartDelta(text) ==
    LET parts == Append(gen.fullDraftParts, text)
    IN  /\ draftHistory' = Append(draftHistory, text)
        /\ reviewDraftOutput' = PartsHtml(parts)

\* fullDraftParts.push(text); draftHistory.push(join); the output pane
PushPart(text) ==
    LET parts == Append(gen.fullDraftParts, text)
    IN  /\ draftHistory' = Append(draftHistory, Join(parts, ParaBreak))
        /\ reviewDraftOutput' = PartsHtml(parts)

\* the introduction call settles
IntroReturns(ok, text) ==
    /\ pc = "intro"
    /\ IF ok
       THEN /\ PushPart(text)
            /\ BeginNextStage(gen.themes, Append(gen.fullDraftParts, text), 0,
                              reviewProgressLog)
            /\ UNCHANGED <<ingestVars, assistVars, draftVersionControls, writingEditor, referencesList,
                           referencesHidden, writingAssistantHidden>>
       ELSE AbortReview
    /\ UNCHANGED <<activeSimilarityHighlight, simResults>>

\* the call for the theme at position gen.i settles
ThemeReturns(ok, text) ==
    /\ pc = "theme"
    /\ IF ok
       THEN /\ PushPart(text)
            /\ BeginNextStage(gen.themes, Append(gen.fullDraftParts, text), gen.i + 1,
                              reviewProgressLog)
            /\ UNCHANGED <<ingestVars, assistVars, draftVersionControls, writingEditor, referencesList,
                           referencesHidden, writingAssistantHidden>>
       ELSE AbortReview
    /\ UNCHANGED <<activeSimilarityHighlight, simResults>>

\* the conclusion call settles
ConclusionReturns(ok, text) ==
    /\ pc = "conclusion"
    /\ IF ok
       THEN /\ PushPart(text)
            /\ FinishReview(draftHistory', reviewProgressLog)
            /\ UNCHANGED <<ingestVars, assistVars, genCalls>>
       ELSE AbortReview
    /\ UNCHANGED <<activeSimilarityHighlight, simResults>>

\* faulty variant of the selection: the versions after the selected one are dropped
HandleVersionChangeTruncating(k) ==
    /\ k \in 1..Len(draftVersionControls)
    /\ draftVersionControls' =
           [j \in 1..Len(draftVersionControls) |->
               [draftVersionControls[j] EXCEPT !.active = (j = k)]]
    /\ draftHistory' = SubSeq(draftHistory, 1, k)
    /\ reviewDraftOutput' = ReplaceNewlines(draftHistory[k], <<"<br>">>)
    /\ UNCHANGED <<isLoading, disabled, pc, ingestVars, assistVars, reviewProgressLog,
                   writingEditor, referencesList, referencesHidden,
                   writingAssistantHidden, gen, genCalls>>
    /\ activeSimilarityHighlight' = 0
    /\ UNCHANGED simResults

\* faulty variant of the selection: the active class of the clicked button is flipped
\* instead of set
HandleVersionChangeToggling(k) ==
    /\ k \in 1..Len(draftVersionControls)
    /\ draftVersionControls' =
           [j \in 1..Len(draftVersionControls) |->
               [draftVersionControls[j] EXCEPT
                   !.active = IF j = k THEN ~draftVersionControls[j].active ELSE FALSE]]
    /\ reviewDraftOutput' = ReplaceNewlines(
           IF draftHistory[k] = <<>> THEN <<"Could not load this version.">>
           ELSE draftHistory[k], <<"<br>">>)
    /\ UNCHANGED <<isLoading, disabled, pc, ingestVars, assistVars, draftHistory,
                   reviewProgressLog, writingEditor, referencesList, referencesHidden,
                   writingAssistantHidden, gen, genCalls>>
    /\ activeSimilarityHighlight' = 0
    /\ UNCHANGED simResults

\* handleVersionChange for a click on the version button at 1-based position k
HandleVersionChange(k) ==
    /\ k \in 1..Len(draftVersionControls)
    /\ LET index == draftVersionControls[k].index
           stored == IF index + 1 \in 1..Len(draftHistory) THEN draftHistory[index + 1]
                     ELSE <<>>
           draftText == IF stored = <<>> THEN <<"Could not load this version.">> ELSE stored
       IN  /\ draftVersionControls' =
                  [j \in 1..Len(draftVersionControls) |->
                      [draftVersionControls[j] EXCEPT !.active = (j = k)]]
           /\ reviewDraftOutput' = ReplaceNewlines(draftText, <<"<br>">>)
    /\ UNCHANGED <<isLoading, disabled, pc, ingestVars, assistVars, draftHistory, reviewProgressLog,
                   writingEditor, referencesList, referencesHidden,
                   writingAssistantHidden, gen, genCalls>>
    /\ activeSimilarityHighlight' = 0
    /\ UNCHANGED simResults

\* ------------------------------------------------------------------- chat
\* the context of the standing instruction: name and summary of each stored document
ChatContext(ks) == [k \in 1..Len(ks) |-> [fileName |-> ks[k].fileName,
                                            summary |-> ks[k].summary]]

\* addMessageToChat
AddMessageToChat(messages, text, sender) == Append(messages, [sender |-> sender, text |-> text])

\* handleAskQuestion up to the await of chat.sendMessage; `sent` counts the messages
\* sent to a session
HandleAskQuestion(question) ==
    /\ ~disabled.chatButton
    /\ IF Trim(question) = <<>> \/ isLoading \/ Len(knowledgeSources) = 0
       THEN UNCHANGED stateVars
       ELSE /\ Len(chatRequests) < MaxQuestions
            /\ SetLoading(TRUE, articleInput, knowledgeSources)
            /\ chatContainer' = AddMessageToChat(chatContainer, Trim(question), "user")
            /\ chat' = IF chat = NoChat
                       THEN [instruction |-> ChatContext(knowledgeSources), sent |-> 1]
                       ELSE [chat EXCEPT !.sent = @ + 1]
            /\ chatRequests' = Append(chatRequests,
                   [sources |-> Len(knowledgeSources),
                    history |-> IF chat = NoChat THEN 0 ELSE chat.sent,
                    outcome |-> "pending"])
            /\ pc' = "ask"
            /\ UNCHANGED <<knowledgeSources, currentFileName, articleInput, kbSectionsHidden,
                           files, fileIdx, pending, reviewVars, analysisSuggestions,
                           suggestionsPanel>>
    /\ activeSimilarityHighlight' = 0
    /\ UNCHANGED simResults

\* chat.sendMessage settles: the reply or the apology is shown
AskReturns(ok, reply) ==
    /\ pc = "ask"
    /\ chatContainer' = AddMessageToChat(chatContainer,
           IF ok THEN reply ELSE <<"Sorry, I encountered an error.">>, "model")
    /\ chatRequests' = [chatRequests EXCEPT ![Len(chatRequests)].outcome =
                            IF ok THEN "answered" ELSE "failed"]
    /\ SetLoading(FALSE, articleInput, knowledgeSources)
    /\ pc' = "idle"
    /\ UNCHANGED <<ingestVars, reviewVars, analysisSuggestions, suggestionsPanel>>
    /\ UNCHANGED <<activeSimilarityHighlight, simResults>>

\* ---------------------------------------------------------- writing assistant
\* renderSuggestions: one card per suggestion, its buttons carrying the 0-based index
RenderSuggestions(list) ==
    IF list = <<>> THEN Placeholder(<<"No suggestions found! The text looks great.">>)
    ELSE [placeholder |-> <<>>,
          cards |-> [k \in 1..Len(list) |->
                        [index |-> k - 1, issue |-> list[k].issue, fix |-> list[k].suggestion]]]

\* the replacement text of String.prototype.replace with its patterns "$$" and "$&"
\* expanded, `matched` being the matched substring
RECURSIVE ExpandReplacement(_, _)
ExpandReplacement(rep, matched) ==
    IF rep = <<>> THEN <<>>
    ELSE IF Len(rep) >= 2 /\ rep[1] = "$" /\ rep[2] = "$"
    THEN <<"$">> \o ExpandReplacement(SubSeq(rep, 3, Len(rep)), matched)
    ELSE IF Len(rep) >= 2 /\ rep[1] = "$" /\ rep[2] = "&"
    THEN matched \o ExpandReplacement(SubSeq(rep, 3, Len(rep)), matched)
    ELSE <<Head(rep)>> \o ExpandReplacement(Tail(rep), matched)

\* t.replace(pat, rep) for a string pattern: the first occurrence only
ReplaceFirst(t, pat, rep) ==
    LET at == { i \in 0..(Len(t) - Len(pat)) : SubSeq(t, i + 1, i + Len(pat)) = pat }
    IN  IF at = {} THEN t
        ELSE LET i == CHOOSE x \in at : \A y \in at : x <= y
             IN  SubSeq(t, 1, i) \o ExpandReplacement(rep, pat)
                 \o SubSeq(t, i + Len(pat) + 1, Len(t))

\* faulty variant of the removal: everything from the index on is removed
SpliceToEnd(list, index) == SubSeq(list, 1, index)

\* list.splice(index, 1) for a 0-based index
Splice(list, index) == SubSeq(list, 1, index) \o SubSeq(list, index + 2, Len(list))

\* handleAnalyzeText up to the await of its model call
HandleAnalyzeText ==
    /\ ~disabled.analyzeTextButton
    /\ ~writingAssistantHidden
    /\ IF Trim(InnerText(writingEditor)) = <<>>
       THEN UNCHANGED stateVars
       ELSE /\ SetLoading(TRUE, articleInput, knowledgeSources)
            /\ suggestionsPanel' = Placeholder(<<"Analyzing...">>)
            /\ pc' = "analyzeText"
            /\ UNCHANGED <<ingestVars, reviewVars, analysisSuggestions, chatRequests,
                           chatContainer>>
    /\ activeSimilarityHighlight' = 0
    /\ UNCHANGED simResults

\* the proofreading call settles: the list is replaced and rendered, or the failure
\* placeholder is shown
AnalyzeTextReturns(ok, suggestions) ==
    /\ pc = "analyzeText"
    /\ IF ok
       THEN /\ analysisSuggestions' = suggestions
            /\ suggestionsPanel' = RenderSuggestions(suggestions)
       ELSE /\ suggestionsPanel' = Placeholder(<<"Failed to get suggestions.">>)
            /\ UNCHANGED analysisSuggestions
    /\ SetLoading(FALSE, articleInput, knowledgeSources)
    /\ pc' = "idle"
    /\ UNCHANGED <<ingestVars, reviewVars, chatRequests, chatContainer>>
    /\ UNCHANGED <<activeSimilarityHighlight, simResults>>

\* handleSuggestionClick for a click on the accept or reject button of the card at
\* 1-based position k of the panel
HandleSuggestionClick(k, button) ==
    /\ ~writingAssistantHidden
    /\ k \in 1..Len(suggestionsPanel.cards)
    /\ LET index == suggestionsPanel.cards[k].index
       IN  /\ index + 1 \in 1..Len(analysisSuggestions)
           /\ LET suggestion == analysisSuggestions[index + 1]
              IN  writingEditor' =
                      IF button = "accept"
                      THEN InnerHTML(ReplaceFirst(writingEditor, suggestion.issue,
                               Tag("strong") \o suggestion.suggestion \o CloseTag("strong")))
                      ELSE writingEditor
           /\ analysisSuggestions' = Splice(analysisSuggestions, index)
           /\ suggestionsPanel' = RenderSuggestions(analysisSuggestions')
    /\ UNCHANGED <<isLoading, disabled, pc, ingestVars, draftHistory, reviewDraftOutput,
                   reviewProgressLog, draftVersionControls, referencesList, referencesHidden,
                   writingAssistantHidden, gen, genCalls, chatRequests, chatContainer>>
    /\ activeSimilarityHighlight' = 0
    /\ UNCHANGED simResults

\* ----------------------------------------------------------- similarity check
\* draftText.length: the number of characters of a text
RECURSIVE TextLength(_)
TextLength(text) ==
    Only({
        IF t = <<>> THEN 0
        ELSE IF Len(t) = 1 THEN Len(t[1])
        ELSE TextLength(SubSeq(t, 1, Len(t) \div 2))
             + TextLength(SubSeq(t, Len(t) \div 2 + 1, Len(t)))
    : t \in {text} })

\* faulty variant of removeHighlights: the regions stay
RemoveHighlightsNone(markup) == markup

\* one step of removeHighlights on the state s (markup written so far in out, markup
\* still to visit in rest, not empty): the tags of a region are left out, all else stays
RemoveHighlightsStep(s) ==
    IF Head(s.rest) # "<"
    THEN [out |-> s.out \o SubSeq(s.rest, 1, RunLen(s.rest, {"<"})),
          rest |-> SubSeq(s.rest, RunLen(s.rest, {"<"}) + 1, Len(s.rest))]
    ELSE IF ParseSpanOpen(s.rest).ok
    THEN [out |-> s.out, rest |-> SubSeq(s.rest, ParseSpanOpen(s.rest).len + 1, Len(s.rest))]
    ELSE IF Len(s.rest) >= 4 /\ SubSeq(s.rest, 1, 4) = CloseTag("span")
    THEN [out |-> s.out, rest |-> SubSeq(s.rest, 5, Len(s.rest))]
    ELSE [out |-> Append(s.out, Head(s.rest)), rest |-> Tail(s.rest)]

\* up to 2^k steps of removeHighlights from the state `from`
RECURSIVE RemoveHighlightsRun(_, _)
RemoveHighlightsRun(from, doublings) ==
    Only({
        IF s.rest = <<>> THEN s
        ELSE IF k = 0 THEN RemoveHighlightsStep(s)
        ELSE RemoveHighlightsRun(RemoveHighlightsRun(s, k - 1), k - 1)
    : s \in {from}, k \in {doublings} })

\* removeHighlights: every region is replaced by its text; normalize merges the text
RemoveHighlights(markup) ==
    Only({ RemoveHighlightsRun([out |-> <<>>, rest |-> html], Doublings(Len(html))).out
         : html \in {markup} })

\* faulty variant of highlightText: no text node is searched
HighlightTextNever(markup, textToFind, original, suggestion) == markup

\* one step of highlightText on the state s (markup written so far in out, markup
\* still to visit in rest, not empty): a tag is passed over; a text node whose value
\* holds textToFind has the first occurrence surrounded by a region, which ends the
\* walk; any other text node is passed over
HighlightTextStep(s, textToFind, original, suggestion) ==
    IF s.rest[1] = "<"
    THEN [out |-> s.out \o SubSeq(s.rest, 1, TagLen(s.rest)),
          rest |-> SubSeq(s.rest, TagLen(s.rest) + 1, Len(s.rest))]
    ELSE LET n == TextRunLen(s.rest)
             value == Decode(SubSeq(s.rest, 1, n))
             at == { i \in 0..(Len(value) - Len(textToFind)) :
                        SubSeq(value, i + 1, i + Len(textToFind)) = textToFind }
         IN  IF at = {}
             THEN [out |-> s.out \o SubSeq(s.rest, 1, n),
                   rest |-> SubSeq(s.rest, n + 1, Len(s.rest))]
             ELSE LET i == CHOOSE x \in at : \A y \in at : x <= y
                  IN  [out |-> s.out \o Encode(SubSeq(value, 1, i))
                               \o SpanOpen(original, suggestion)
                               \o Encode(textToFind) \o CloseTag("span")
                               \o Encode(SubSeq(value, i + Len(textToFind) + 1, Len(value)))
                               \o SubSeq(s.rest, n + 1, Len(s.rest)),
                       rest |-> <<>>]

\* up to 2^k steps of highlightText from the state `from`
RECURSIVE HighlightTextRun(_, _, _, _, _)
HighlightTextRun(from, doublings, textToFind, original, suggestion) ==
    Only({
        IF s.rest = <<>> THEN s
        ELSE IF k = 0 THEN HighlightTextStep(s, textToFind, original, suggestion)
        ELSE HighlightTextRun(HighlightTextRun(s, k - 1, textToFind, original, suggestion),
                              k - 1, textToFind, original, suggestion)
    : s \in {from}, k \in {doublings} })

\* highlightText: the text nodes are visited in document order, those inside elements
\* included; in the first one whose value holds textToFind its first occurrence is
\* surrounded by a region
HighlightText(markup, textToFind, original, suggestion) ==
    Only({ HighlightTextRun([out |-> <<>>, rest |-> html], Doublings(Len(html)),
                            find, orig, sugg).out
         : html \in {markup}, find \in {textToFind}, orig \in {original},
           sugg \in {suggestion} })

\* `${result.similar_passage_from_source} (from ${result.source_filename})`
OriginalPayload(result) ==
    result.similar_passage_from_source \o <<" ", "(", "from", " ">>
    \o result.source_filename \o <<")">>

\* faulty variant of the loop: it ends at the first match that is not found
RECURSIVE HighlightAllStopping(_, _)
HighlightAllStopping(html, results) ==
    IF results = <<>> THEN html
    ELSE LET next == HighlightText(html, Head(results).original_sentence,
                                   OriginalPayload(Head(results)),
                                   Head(results).rewritten_suggestion)
         IN  IF next = html THEN html ELSE HighlightAllStopping(next, Tail(results))

\* results.forEach(result => highlightText(...))
RECURSIVE HighlightAll(_, _)
HighlightAll(html, results) ==
    IF results = <<>> THEN html
    ELSE HighlightAll(HighlightText(html, Head(results).original_sentence,
                                    OriginalPayload(Head(results)),
                                    Head(results).rewritten_suggestion),
                      Tail(results))

\* one step of the walk over the tags of the markup `html` from the state s (position
\* reached in at, region start tags met so far in found)
SpanStartsStep(html, s) ==
    LET here == SubSeq(html, s.at, Len(html))
    IN  IF here[1] = "<"
        THEN [at |-> s.at + TagLen(here),
              found |-> IF ParseSpanOpen(here).ok THEN Append(s.found, s.at) ELSE s.found]
        ELSE [at |-> s.at + TextRunLen(here), found |-> s.found]

\* up to 2^k steps of that walk
RECURSIVE SpanStartsRun(_, _, _)
SpanStartsRun(html, from, doublings) ==
    Only({
        IF s.at > Len(html) THEN s
        ELSE IF k = 0 THEN SpanStartsStep(html, s)
        ELSE SpanStartsRun(html, SpanStartsRun(html, s, k - 1), k - 1)
    : s \in {from}, k \in {doublings} })

\* positions of the region start tags in the editor markup, in document order
SpanStarts(markup, offset) ==
    Only({ [j \in 1..Len(end.found) |-> end.found[j] + offset]
         : end \in { SpanStartsRun(html, [at |-> 1, found |-> <<>>], Doublings(Len(html)))
                     : html \in {markup} } })

\* one step of the search for the end tag of a region in `html` from the state s
\* (position reached in at, regions open there in depth; depth 0 once the end tag is
\* under at)
CloseOfStep(html, s) ==
    IF html[s.at] # "<"
    THEN [at |-> s.at + RunLen(SubSeq(html, s.at, Len(html)), {"<"}), depth |-> s.depth]
    ELSE LET here == SubSeq(html, s.at, Len(html))
         IN  IF ParseSpanOpen(here).ok
             THEN [at |-> s.at + TagLen(here), depth |-> s.depth + 1]
             ELSE IF SubSeq(here, 1, 4) = CloseTag("span")
             THEN (IF s.depth = 1 THEN [at |-> s.at, depth |-> 0]
                   ELSE [at |-> s.at + 4, depth |-> s.depth - 1])
             ELSE [at |-> s.at + TagLen(here), depth |-> s.depth]

\* up to 2^k steps of that search
RECURSIVE CloseOfRun(_, _, _)
CloseOfRun(html, from, doublings) ==
    Only({
        IF s.depth = 0 THEN s
        ELSE IF k = 0 THEN CloseOfStep(html, s)
        ELSE CloseOfRun(html, CloseOfRun(html, s, k - 1), k - 1)
    : s \in {from}, k \in {doublings} })

\* position of the end tag that closes the region whose content starts at `from`
CloseOf(markup, from, depth) ==
    Only({ CloseOfRun(html, [at |-> from, depth |-> depth], Doublings(Len(html))).at
         : html \in {markup} })

\* the r-th region of the editor: where it starts and ends, its payloads, its content
Region(html, r) ==
    LET start == SpanStarts(html, 0)[r]
        open == ParseSpanOpen(SubSeq(html, start, Len(html)))
        close == CloseOf(html, start + open.len, 1)
    IN  [start |-> start, close |-> close, original |-> open.original,
         suggestion |-> open.suggestion,
         content |-> SubSeq(html, start + open.len, close - 1)]

NumRegions(html) == Len(SpanStarts(html, 0))

\* faulty variant of the replacement: the content of the region is replaced, its
\* element stays
ReplaceRegionContent(html, r, text) ==
    SubSeq(html, 1, Region(html, r).close - Len(Region(html, r).content) - 1)
    \o Encode(text) \o SubSeq(html, Region(html, r).close, Len(html))

\* span.replaceWith(document.createTextNode(text)); writingEditor.normalize()
ReplaceRegion(html, r, text) ==
    SubSeq(html, 1, Region(html, r).start - 1) \o Encode(text)
    \o SubSeq(html, Region(html, r).close + 4, Len(html))

\* one step of collecting the text of a region from the state s (text collected so far
\* in out, content still to visit in rest, not empty, elements open there in depth)
OwnTextStep(s) ==
    IF s.rest[1] = "<"
    THEN [out |-> s.out, rest |-> SubSeq(s.rest, TagLen(s.rest) + 1, Len(s.rest)),
          depth |-> IF s.rest[2] = "/" THEN s.depth - 1 ELSE s.depth + 1]
    ELSE [out |-> IF s.depth = 0 THEN s.out \o SubSeq(s.rest, 1, TextRunLen(s.rest))
                  ELSE s.out,
          rest |-> SubSeq(s.rest, TextRunLen(s.rest) + 1, Len(s.rest)),
          depth |-> s.depth]

\* up to 2^k steps of that collection
RECURSIVE OwnTextRun(_, _)
OwnTextRun(from, doublings) ==
    Only({
        IF s.rest = <<>> THEN s
        ELSE IF k = 0 THEN OwnTextStep(s)
        ELSE OwnTextRun(OwnTextRun(s, k - 1), k - 1)
    : s \in {from}, k \in {doublings} })

\* the text nodes that are children of the region itself
OwnText(markup, depth) ==
    Only({ OwnTextRun([out |-> <<>>, rest |-> content, depth |-> depth],
                      Doublings(Len(content))).out
         : content \in {markup} })

\* handleSimilarityCheck up to the await of its model call
HandleSimilarityCheck ==
    /\ ~disabled.similarityCheckButton
    /\ ~writingAssistantHidden
    /\ activeSimilarityHighlight' = 0
    /\ UNCHANGED simResults
    /\ IF TextLength(Trim(InnerText(writingEditor))) < MinSimilarityLength
       THEN UNCHANGED stateVars
       ELSE /\ SetLoading(TRUE, articleInput, knowledgeSources)
            /\ writingEditor' = RemoveHighlights(writingEditor)
            /\ pc' = "similarity"
            /\ UNCHANGED <<ingestVars, assistVars, draftHistory, reviewDraftOutput,
                           reviewProgressLog, draftVersionControls, referencesList,
                           referencesHidden, writingAssistantHidden, gen, genCalls>>

\* faulty variant of the settling: there is no finally block, a failure leaves the
\* busy state as it is
SimilarityReturnsNoFinally(ok, results) ==
    /\ pc = "similarity"
    /\ writingEditor' = IF ok THEN HighlightAll(writingEditor, results) ELSE writingEditor
    /\ IF ok THEN SetLoading(FALSE, articleInput, knowledgeSources)
             ELSE UNCHANGED <<isLoading, disabled>>
    /\ pc' = "idle"
    /\ UNCHANGED <<ingestVars, assistVars, draftHistory, reviewDraftOutput,
                   reviewProgressLog, draftVersionControls, referencesList,
                   referencesHidden, writingAssistantHidden, gen, genCalls,
                   activeSimilarityHighlight>>
    /\ simResults' = IF ok THEN results ELSE simResults

\* the similarity call settles: each result is highlighted in turn, or the failure
\* is reported
SimilarityReturns(ok, results) ==
    /\ pc = "similarity"
    /\ writingEditor' = IF ok THEN HighlightAll(writingEditor, results) ELSE writingEditor
    /\ SetLoading(FALSE, articleInput, knowledgeSources)
    /\ pc' = "idle"
    /\ UNCHANGED <<ingestVars, assistVars, draftHistory, reviewDraftOutput,
                   reviewProgressLog, draftVersionControls, referencesList,
                   referencesHidden, writingAssistantHidden, gen, genCalls,
                   activeSimilarityHighlight>>
    /\ simResults' = IF ok THEN results ELSE simResults

\* a click on the r-th region of the editor: showSimilarityTooltip
ShowSimilarityTooltip(r) ==
    /\ ~writingAssistantHidden
    /\ r \in 1..NumRegions(writingEditor)
    /\ OwnText(Region(writingEditor, r).content, 0) # <<>>
    /\ activeSimilarityHighlight' = r
    /\ UNCHANGED <<stateVars, simResults>>

\* a click that no other listener handles: the document listener hides the tooltip
HideSimilarityTooltip ==
    /\ activeSimilarityHighlight # 0
    /\ activeSimilarityHighlight' = 0
    /\ UNCHANGED simResults
    /\ UNCHANGED stateVars

\* acceptSimilaritySuggestion, dismissSimilaritySuggestion: a click on the button of
\* the open tooltip
AcceptSimilaritySuggestion ==
    /\ activeSimilarityHighlight # 0
    /\ writingEditor' = ReplaceRegion(writingEditor, activeSimilarityHighlight,
                             Region(writingEditor, activeSimilarityHighlight).suggestion)
    /\ activeSimilarityHighlight' = 0
    /\ UNCHANGED simResults
    /\ UNCHANGED <<isLoading, disabled, pc, ingestVars, assistVars, draftHistory,
                   reviewDraftOutput, reviewProgressLog, draftVersionControls,
                   referencesList, referencesHidden, writingAssistantHidden, gen, genCalls>>

DismissSimilaritySuggestion ==
    /\ activeSimilarityHighlight # 0
    /\ writingEditor' = ReplaceRegion(writingEditor, activeSimilarityHighlight,
                             BlockText(Region(writingEditor, activeSimilarityHighlight).content))
    /\ activeSimilarityHighlight' = 0
    /\ UNCHANGED simResults
    /\ UNCHANGED <<isLoading, disabled, pc, ingestVars, assistVars, draftHistory,
                   reviewDraftOutput, reviewProgressLog, draftVersionControls,
                   referencesList, referencesHidden, writingAssistantHidden, gen, genCalls>>

\* ------------------------------------------------------------ specifications
NextIngest ==
    \/ \E t \in PasteTexts \cup {<<>>} : TypeArticle(t)
    \/ HandleProcessArticle
    \/ \E ok \in BOOLEAN, parsed \in AnalysisResponses : ProcessAnalyzeReturns(ok, parsed)
    \/ \E fs \in FileSelections : HandleFileSelect(fs)
    \/ \E ok \in BOOLEAN : ParseReturns(ok)
    \/ \E ok \in BOOLEAN : BatchReadReturns(ok)
    \/ \E ok \in BOOLEAN, parsed \in AnalysisResponses : BatchAnalyzeReturns(ok, parsed)

NextReview ==
    \/ \E topic \in Topics, reviewLength \in ReviewLengths :
            HandleGenerateReview(topic, reviewLength)
    \/ \E ok \in BOOLEAN, draft \in ConciseDrafts : ConciseReturns(ok, draft)
    \/ \E ok \in BOOLEAN, outline \in Outlines : OutlineReturns(ok, outline)
    \/ \E ok \in BOOLEAN, text \in StageTexts : IntroReturns(ok, text)
    \/ \E ok \in BOOLEAN, text \in StageTexts : ThemeReturns(ok, text)
    \/ \E ok \in BOOLEAN, text \in StageTexts : ConclusionReturns(ok, text)
    \/ \E k \in 1..(MaxThemes + 3) : HandleVersionChange(k)

NextChat ==
    \/ \E question \in Questions : HandleAskQuestion(question)
    \/ \E ok \in BOOLEAN : AskReturns(ok, <<"r">>)

\* the ingestion steps the chat is checked against: one pasted text, the single file
\* FileB and the batch <<FileA, FileB>>, one result of the analysis call
NextIngestFew ==
    \/ TypeArticle(<<" ", "p">>)
    \/ HandleProcessArticle
    \/ \E ok \in BOOLEAN, parsed \in { r \in AnalysisResponses : r.author = AuthorC } :
            \/ ProcessAnalyzeReturns(ok, parsed)
            \/ BatchAnalyzeReturns(ok, parsed)
    \/ \E fs \in { <<FileB>>, <<FileA, FileB>> } : HandleFileSelect(fs)
    \/ \E ok \in BOOLEAN : ParseReturns(ok) \/ BatchReadReturns(ok)

\* the ingestion steps the placeholder names are checked against: one pasted text, the
\* files FileB and FileQ alone or as a batch, one result of the analysis call
NextPaste ==
    \/ TypeArticle(<<" ", "p">>)
    \/ HandleProcessArticle
    \/ \E ok \in BOOLEAN, parsed \in { r \in AnalysisResponses : r.author = AuthorC } :
            \/ ProcessAnalyzeReturns(ok, parsed)
            \/ BatchAnalyzeReturns(ok, parsed)
    \/ \E fs \in { <<FileB>>, <<FileQ>>, <<FileQ, FileB>> } : HandleFileSelect(fs)
    \/ \E ok \in BOOLEAN : ParseReturns(ok) \/ BatchReadReturns(ok)

NextProof ==
    \/ HandleAnalyzeText
    \/ \E ok \in BOOLEAN, suggestions \in SuggestionLists : AnalyzeTextReturns(ok, suggestions)
    \/ \E k \in 1..MaxSuggestions, button \in {"accept", "reject"} :
            HandleSuggestionClick(k, button)

\* the proofreading steps the similarity check is checked against: every suggestion
\* is about the word "b"
NextProofFew ==
    \/ HandleAnalyzeText
    \/ \E ok \in BOOLEAN,
          suggestions \in { l \in SuggestionLists :
                               \A k \in 1..Len(l) : l[k].issue = <<"b">> } :
            AnalyzeTextReturns(ok, suggestions)
    \/ \E k \in 1..MaxSuggestions, button \in {"accept", "reject"} :
            HandleSuggestionClick(k, button)

\* the review steps the writing assistant is checked against: concise reviews
NextConcise ==
    \/ \E topic \in Topics : HandleGenerateReview(topic, "concise")
    \/ \E ok \in BOOLEAN, draft \in StageTexts : ConciseReturns(ok, draft)

NextSimilarity ==
    \/ HandleSimilarityCheck
    \/ \E ok \in BOOLEAN, results \in SimilarityResults : SimilarityReturns(ok, results)
    \/ \E r \in 1..MaxMatches : ShowSimilarityTooltip(r)
    \/ HideSimilarityTooltip
    \/ AcceptSimilaritySuggestion
    \/ DismissSimilaritySuggestion

\* the review steps the similarity check is checked against: concise reviews whose
\* draft is long enough, or just too short, for a check
NextConciseLong ==
    \/ HandleGenerateReview(<<"q">>, "concise")
    \/ \E ok \in BOOLEAN, draft \in SimilarityDrafts : ConciseReturns(ok, draft)

\* The steps the busy flag is checked against: every operation that sets it, with one
\* question to the chat and one result of each call.  BusySettles are the steps in
\* which an awaited call (or file read) settles, BusyTriggers those of the user.
BusySettles ==
    \/ \E ok \in BOOLEAN, parsed \in { r \in AnalysisResponses : r.author = AuthorC } :
            \/ ProcessAnalyzeReturns(ok, parsed)
            \/ BatchAnalyzeReturns(ok, parsed)
    \/ \E ok \in BOOLEAN : ParseReturns(ok) \/ BatchReadReturns(ok)
    \/ \E ok \in BOOLEAN : AskReturns(ok, <<"r">>)
    \/ \E ok \in BOOLEAN : ConciseReturns(ok, DraftLong)
    \/ \E ok \in BOOLEAN : OutlineReturns(ok, [themes |-> << <<"T", Digits[1]>> >>])
    \/ \E ok \in BOOLEAN : IntroReturns(ok, <<>>)
    \/ \E ok \in BOOLEAN : ThemeReturns(ok, <<>>)
    \/ \E ok \in BOOLEAN : ConclusionReturns(ok, DraftLong)
    \/ \E ok \in BOOLEAN : AnalyzeTextReturns(ok, <<>>)
    \/ \E ok \in BOOLEAN : SimilarityReturns(ok, <<>>)

BusyTriggers ==
    \/ TypeArticle(<<" ", "p">>)
    \/ HandleProcessArticle
    \/ \E fs \in { <<FileB>>, <<FileA, FileB>> } : HandleFileSelect(fs)
    \/ chatRequests = <<>> /\ HandleAskQuestion(<<"q">>)
    \/ \E reviewLength \in ReviewLengths : HandleGenerateReview(<<"q">>, reviewLength)
    \/ HandleAnalyzeText
    \/ HandleSimilarityCheck

NextBusy == BusyTriggers \/ BusySettles

Next == NextIngest \/ NextReview \/ NextChat \/ NextProof \/ NextSimilarity

\* the whole program
Spec == Init /\ [][Next]_vars

\* ingestion alone: no review is ever requested
SpecIngest == Init /\ [][NextIngest]_vars

\* The states right after the batch <<FileA, FileP>> was ingested into the empty store
\* with both model calls successful.
BatchStores ==
    { StoreDocument(StoreDocument(<<>>, FileA.name, Trim(ExtractText(FileA)), r1),
                    FileP.name, Trim(ExtractText(FileP)), r2)
      : r1 \in AnalysisResponses, r2 \in AnalysisResponses }

AfterBatch ==
    /\ isLoading = FALSE
    /\ knowledgeSources \in BatchStores
    /\ disabled = [Controls(FALSE, <<>>, knowledgeSources) EXCEPT !.processButton = FALSE]
    /\ currentFileName = <<>>
    /\ articleInput = <<>>
    /\ chat = NoChat
    /\ kbSectionsHidden = FALSE
    /\ pc = "idle"
    /\ files = <<>>
    /\ fileIdx = 0
    /\ pending = NoPending
    /\ draftHistory = <<>>
    /\ reviewDraftOutput = <<>>
    /\ reviewProgressLog = <<>>
    /\ draftVersionControls = <<>>
    /\ writingEditor = <<>>
    /\ referencesList = <<>>
    /\ referencesHidden = TRUE
    /\ writingAssistantHidden = TRUE
    /\ gen = NoGen
    /\ genCalls = <<>>
    /\ analysisSuggestions = <<>>
    /\ suggestionsPanel = Placeholder(<<>>)
    /\ chatRequests = <<>>
    /\ chatContainer = <<>>
    /\ activeSimilarityHighlight = 0
    /\ simResults = <<>>

\* ingestion and the chat
SpecChat == Init /\ [][NextIngestFew \/ NextChat]_vars

\* concise reviews and the proofreading of their drafts over an ingested store
SpecProof == AfterBatch /\ [][NextConcise \/ NextProof]_vars

\* one of the states after the batch
AfterBatchOne ==
    /\ AfterBatch
    /\ \A k \in 1..Len(knowledgeSources) : knowledgeSources[k].author = AuthorC

\* concise reviews and the similarity check of their drafts over an ingested store
SpecSimilarity == AfterBatchOne /\ [][NextConciseLong \/ NextSimilarity]_vars

\* concise reviews, the proofreading and the similarity check of their drafts
SpecAssist == AfterBatchOne /\ [][NextConciseLong \/ NextProofFew \/ NextSimilarity]_vars

\* pastes and uploads
SpecPaste == Init /\ [][NextPaste]_vars

\* every operation that sets the busy flag
SpecBusy == Init /\ [][NextBusy]_vars

\* the same, every awaited call settling at last
SpecBusyFair == SpecBusy /\ WF_vars(BusySettles)

\* the review pipeline and the version viewer over an ingested store
SpecReview == AfterBatch /\ [][NextReview]_vars

\* ------------------------------------------------------------------ claims
NamePresent(name) == \E i \in 1..Len(knowledgeSources) : knowledgeSources[i].fileName = name
AnalyzePcs == {"processAnalyze", "batchAnalyze"}
StagePcs == {"outline", "intro", "theme", "conclusion", "concise"}
LastLog == IF reviewProgressLog = <<>> THEN LogEntry(0, <<>>)
           ELSE reviewProgressLog[Len(reviewProgressLog)]
ErrorEntry == LogEntry(0, <<"An error occurred during generation.">>)
FinalEntry == LogEntry(0, <<"Final Draft Generated.">>)
IsProperPrefix(s, t) == IsPrefix(s, t) /\ Len(s) < Len(t)

\* a review invocation has settled by failure / by success
Aborted == pc = "idle" /\ LastLog = ErrorEntry
Completed == pc = "idle" /\ LastLog = FinalEntry
Detailed == genCalls # <<>> /\ genCalls[1] = "outline"
Concise == genCalls = <<"concise">>

\* the process button is clicked with non-empty text whose document name is stored
DupPasteAttempt ==
    /\ Trim(articleInput) # <<>>
    /\ NamePresent(IF currentFileName # <<>> THEN currentFileName
                   ELSE PastedName(knowledgeSources))
    /\ HandleProcessArticle

\* the batch loop reaches a file whose name is stored
DupBatchAttempt ==
    /\ pc = "batchRead"
    /\ NamePresent(files[fileIdx].name)
    /\ \E ok \in BOOLEAN : BatchReadReturns(ok)

\* C1: an ingestion attempt (process button with pasted text or a selected file, or a
\* file of a batch) whose identifier is already stored leaves the store as it was and
\* issues no analysis call; and whenever the store does change, it is by appending one
\* document whose identifier was not stored.
C1_DuplicateIngestionSkipped ==
    [][ /\ (DupPasteAttempt \/ DupBatchAttempt)
            => (knowledgeSources' = knowledgeSources /\ pc' \notin AnalyzePcs)
        /\ knowledgeSources' # knowledgeSources
            => /\ ~NamePresent(pending.fileName)
               /\ Len(knowledgeSources') = Len(knowledgeSources) + 1
               /\ SubSeq(knowledgeSources', 1, Len(knowledgeSources)) = knowledgeSources
               /\ knowledgeSources'[Len(knowledgeSources')].fileName = pending.fileName
      ]_vars

\* C1 witness: a batch has just skipped its first file, whose name was stored by an
\* earlier ingestion with another text, and the store still holds that one document.
C1_Witness ==
    /\ pc = "batchRead"
    /\ fileIdx = 2
    /\ Len(knowledgeSources) = 1
    /\ knowledgeSources[1].fileName = files[1].name
    /\ knowledgeSources[1].fullText # Trim(ExtractText(files[1]))

\* C2: in every reachable state no two stored documents have the same identifier.
C2_UniqueIdentifiers ==
    \A i, j \in 1..Len(knowledgeSources) :
        knowledgeSources[i].fileName = knowledgeSources[j].fileName => i = j

\* C2 witness: the store is full after ingestions that included a generated name.
C2_Witness ==
    /\ Len(knowledgeSources) = MaxSources
    /\ \E i \in 1..Len(knowledgeSources) :
           StartsWith(knowledgeSources[i].fileName, PastedPrefix)
    /\ pc = "idle"

\* number of theme calls issued in the current generation
ThemeCalls == Cardinality({ k \in 1..Len(genCalls) : genCalls[k] = "theme" })

\* C3: while a detailed generation runs, each settled call has appended exactly one
\* version; and once it completed with every call successful, for the N themes of its
\* outline the calls were outline, introduction, N themes, conclusion, in this order,
\* and the history holds exactly N+3 versions, the first being the outline.
C3_DetailedVersionCount ==
    /\ (Detailed /\ pc \in StagePcs) => Len(draftHistory) = Len(genCalls) - 1
    /\ (Detailed /\ Completed) =>
          \E o \in Outlines :
             LET N == Len(o.themes)
             IN  /\ draftHistory[1] = OutlineHtml(o.themes)
                 /\ genCalls = <<"outline", "introduction">> \o [k \in 1..N |-> "theme"]
                               \o <<"conclusion">>
                 /\ Len(draftHistory) = N + 3
                 /\ \A k \in 1..N :
                       \E e \in 1..Len(reviewProgressLog) :
                          reviewProgressLog[e] =
                              LogEntry(2 + k, <<"Developing theme: ">> \o o.themes[k])

\* C3 witness: a detailed generation with the largest outline has completed.
C3_Witness ==
    Detailed /\ Completed /\ ThemeCalls = MaxThemes /\ Len(draftHistory) = MaxThemes + 3

\* C4 as claimed: every version from the second on properly extends the version
\* before it.
C4_Original ==
    Detailed => \A i \in 2..Len(draftHistory) :
                    IsProperPrefix(draftHistory[i - 1], draftHistory[i])

\* C4 as amended: every version after the introduction (0-based i >= 2) properly
\* extends the version before it; the introduction does not extend the outline.
C4_CumulativeAfterIntroduction ==
    Detailed => \A i \in 3..Len(draftHistory) :
                    IsProperPrefix(draftHistory[i - 1], draftHistory[i])

\* C4 witness: a completed detailed history in which a theme returned the empty text,
\* so the version differs from the one before by the paragraph break alone.
C4_Witness ==
    /\ Detailed /\ Completed /\ Len(draftHistory) >= 4
    /\ draftHistory[3] = draftHistory[2] \o ParaBreak

\* C5 as claimed: a settled concise invocation leaves exactly one version.
C5_Original == (Concise /\ pc = "idle") => Len(draftHistory) = 1

\* C5 as amended: a settled concise invocation leaves exactly one version when its
\* call succeeded and none when it failed, whatever the history held before.
C5_ConciseOneVersionOnSuccess ==
    /\ (Concise /\ Completed) => Len(draftHistory) = 1
    /\ (Concise /\ Aborted) => Len(draftHistory) = 0

\* C5 witness: a concise generation has completed and its one version is rendered.
C5_Witness == Concise /\ Completed /\ Len(draftHistory) = 1 /\ Len(draftVersionControls) = 1

\* a stage call of the running generation fails
StageFails ==
    \/ \E o \in Outlines : OutlineReturns(FALSE, o)
    \/ \E t \in StageTexts : IntroReturns(FALSE, t)
    \/ \E t \in StageTexts : ThemeReturns(FALSE, t)
    \/ \E t \in StageTexts : ConclusionReturns(FALSE, t)
    \/ \E t \in ConciseDrafts : ConciseReturns(FALSE, t)

\* C6: the step in which a stage call fails issues no further call, leaves no call in
\* flight, appends no version, and leaves the writing editor, the bibliography and the
\* version buttons as they were, with the writing assistant still hidden.
C6_FailureAborts ==
    [][ StageFails =>
          /\ pc' = "idle" /\ ~isLoading'
          /\ genCalls' = genCalls
          /\ draftHistory' = draftHistory
          /\ writingEditor' = writingEditor
          /\ referencesList' = <<>> /\ referencesHidden'
          /\ draftVersionControls' = <<>>
          /\ writingAssistantHidden'
          /\ LastLog' = ErrorEntry
      ]_vars

\* C6 witness: a detailed generation aborted after two versions, while the editor still
\* holds the final draft of an earlier generation.
C6_Witness ==
    /\ Detailed /\ Aborted /\ Len(draftHistory) = 2
    /\ writingEditor # <<>>
    /\ Len(genCalls) = 3

\* C7 as claimed: after an abort every appended version has its button in the viewer.
C7_Original ==
    Aborted => \A k \in 1..Len(draftHistory) :
                   /\ k \in 1..Len(draftVersionControls)
                   /\ draftVersionControls[k].index = k - 1

\* the progress entries that carry a stage index
StageEntries == SelectSeq(reviewProgressLog, LAMBDA e : e.step > 0)

\* the description reported for the call at position k of a detailed generation
\* over the themes `themes`
StageDesc(themes, k) ==
    IF k = 1 THEN <<"Creating a structured outline...">>
    ELSE IF k = 2 THEN <<"Writing the introduction...">>
    ELSE IF k <= Len(themes) + 2 THEN <<"Developing theme: ">> \o themes[k - 2]
    ELSE <<"Writing the conclusion...">>

\* C8: in a detailed generation every issued call has its progress entry: the stage
\* entries of the log are numbered 1, 2, ..., one per call issued, none skipped, and
\* while the generation runs each carries the description of its stage (the outline,
\* the introduction, the themes in outline order at 3..N+2, the conclusion at N+3).
C8_ProgressPerStage ==
    Detailed =>
        /\ Len(StageEntries) = Len(genCalls)
        /\ \A k \in 1..Len(StageEntries) : StageEntries[k].step = k
        /\ pc \in {"intro", "theme", "conclusion"} =>
              /\ \A k \in 1..Len(StageEntries) :
                    StageEntries[k].desc = StageDesc(gen.themes, k)
              /\ pc = "conclusion" => Len(StageEntries) = Len(gen.themes) + 3
              /\ pc = "theme" => Len(StageEntries) = gen.i + 3

\* C8 witness: the conclusion call of a generation with the largest outline is in flight.
C8_Witness == pc = "conclusion" /\ Len(gen.themes) = MaxThemes /\ Len(genCalls) = MaxThemes + 3

\* a review submission that passes the topic check
ReviewSubmitted ==
    \E topic \in Topics, reviewLength \in ReviewLengths :
        Trim(topic) # <<>> /\ HandleGenerateReview(topic, reviewLength)

\* C9 as claimed: no step removes or alters a version.
C9_Original == [][IsPrefix(draftHistory, draftHistory')]_vars

\* C9 as amended: every step other than the submission of a new review keeps all
\* versions and their order, and the submission of a new review empties the history.
C9_AppendOnlyBetweenSubmissions ==
    [][ /\ ~ReviewSubmitted => IsPrefix(draftHistory, draftHistory')
        /\ ReviewSubmitted => draftHistory' = <<>>
      ]_vars

\* C9 witness: an earlier version is selected while the later ones are still stored.
C9_Witness ==
    /\ Len(draftHistory) >= 4
    /\ Len(draftVersionControls) = Len(draftHistory)
    /\ draftVersionControls[2].active
    /\ ~draftVersionControls[Len(draftVersionControls)].active

Labels == [k \in 1..Len(draftVersionControls) |-> draftVersionControls[k].label]

\* C10 as claimed: in every rendered non-empty history the first button reads Outline,
\* the last reads Final, every other reads Step i.
C10_Original ==
    Len(Labels) >= 1 =>
        /\ Labels[1] = <<"Outline">>
        /\ Labels[Len(Labels)] = <<"Final">>
        /\ \A k \in 2..(Len(Labels) - 1) : Labels[k] = <<"Step", " ", Digits[k - 1]>>

\* C10 as amended: the buttons are one per version; with two or more versions the first
\* reads Outline, the last Final and every other Step i; a single version reads Outline.
C10_LabelsFromTwoVersions ==
    Len(Labels) >= 1 =>
        /\ Len(Labels) = Len(draftHistory)
        /\ Labels[1] = <<"Outline">>
        /\ Len(Labels) >= 2 => Labels[Len(Labels)] = <<"Final">>
        /\ \A k \in 2..(Len(Labels) - 1) : Labels[k] = <<"Step", " ", Digits[k - 1]>>

\* C10 witness: a rendered history with the most intermediate versions.
C10_Witness == Len(Labels) = MaxThemes + 3

\* version k is the one on display: its button alone is active and the output pane
\* holds its text (the fallback line for an empty version)
VersionShown(k) ==
    /\ k \in 1..Len(draftVersionControls)
    /\ k \in 1..Len(draftHistory)
    /\ \A j \in 1..Len(draftVersionControls) : draftVersionControls[j].active <=> (j = k)
    /\ reviewDraftOutput = ReplaceNewlines(
           IF draftHistory[k] = <<>> THEN <<"Could not load this version.">>
           ELSE draftHistory[k], <<"<br>">>)

\* C11: a click on the button of version k leaves the draft history, the knowledge
\* store, the writing editor and the suggestion list as they were and puts version k
\* on display; a click on the version already on display changes nothing at all, so
\* selecting a version twice in a row shows what selecting it once shows.
C11_VersionSelectionFrame ==
    [][ \A k \in 1..(MaxThemes + 3) :
            HandleVersionChange(k) =>
                /\ draftHistory' = draftHistory
                /\ knowledgeSources' = knowledgeSources
                /\ writingEditor' = writingEditor
                /\ analysisSuggestions' = analysisSuggestions
                /\ VersionShown(k)'
                /\ VersionShown(k) => UNCHANGED stateVars
      ]_vars

\* C11 witness: the first of at least three versions is on display, which only a
\* selection brings about, while the editor holds the final draft.
C11_Witness ==
    /\ Len(draftHistory) >= 3
    /\ VersionShown(1)
    /\ writingEditor # <<>>

ActiveVersions == { k \in 1..Len(draftVersionControls) : draftVersionControls[k].active }

\* C12 as claimed, taken at the states where no call is in flight: whenever the draft
\* history is non-empty, exactly one version is marked active.
C12_Original ==
    (pc = "idle" /\ draftHistory # <<>>) => Cardinality(ActiveVersions) = 1

\* the final draft of a completed generation, and the bibliography lines of a document
FinalDraft == IF draftHistory = <<>> THEN <<>> ELSE draftHistory[Len(draftHistory)]
EntriesOf(source) == { k \in 1..Len(referencesList) : referencesList[k] = ReferenceLine(source) }
TokenOccurs(source) == Includes(FinalDraft, Citation(source.author, source.year))

\* C13 as claimed: after a completed generation a stored document has a bibliography
\* entry if and only if its "(Author, Year)" token occurs in the final draft text, no
\* document has two entries, and the bibliography is hidden when no token occurs.
C13_Original ==
    Completed =>
        /\ \A i \in 1..Len(knowledgeSources) :
              /\ EntriesOf(knowledgeSources[i]) # {} <=> TokenOccurs(knowledgeSources[i])
              /\ Cardinality(EntriesOf(knowledgeSources[i])) <= 1
        /\ (\A i \in 1..Len(knowledgeSources) : ~TokenOccurs(knowledgeSources[i]))
              => referencesHidden

\* the author a bibliography line starts with (no modelled author holds a full stop)
LineAuthor(line) ==
    LET stops == { k \in 1..Len(line) : line[k] = "." }
        first == CHOOSE k \in stops : \A j \in stops : k <= j
    IN  SubSeq(line, 1, first - 1)

\* C14: after a completed generation the bibliography lines are in ascending author
\* order: of two adjacent lines the first one's author is less than or equal to the
\* second one's in the order localeCompare gives.
C14_BibliographySorted ==
    Completed =>
        \A k \in 1..(Len(referencesList) - 1) :
            LocaleLeq(LineAuthor(referencesList[k]), LineAuthor(referencesList[k + 1]))

\* C14 witness: both stored documents are cited and the bibliography lists them in the
\* reverse of their store order.
C14_Witness ==
    /\ Completed
    /\ Len(knowledgeSources) = 2
    /\ knowledgeSources[1].author = AuthorL
    /\ knowledgeSources[2].author = AuthorC
    /\ referencesList = <<ReferenceLine(knowledgeSources[2]), ReferenceLine(knowledgeSources[1])>>
    /\ ~referencesHidden

BatchPcs == {"batchRead", "batchAnalyze"}

\* C15: a batch starts with the read of its first file; while it runs the selection is
\* fixed and the loop position moves by one file at a time, to the read of the next
\* file, and only in the step in which the attempt for the current file settles (read
\* failure, duplicate skip, or the return of its analysis call), other steps leaving
\* the attempt where it is; the batch ends only
\* in the step that settles its last file, whatever failed or was skipped before; the
\* store changes only when the analysis call for the current file succeeds, by
\* appending that file, and a failed call leaves it as it was.  So every file is
\* attempted once, in selection order, and the store at the end is the store before
\* followed by the succeeded files in selection order.
C15_BatchSequential ==
    [][ /\ (pc \notin BatchPcs /\ pc' \in BatchPcs) =>
              /\ pc' = "batchRead" /\ fileIdx' = 1 /\ Len(files') >= 2
              /\ knowledgeSources' = knowledgeSources
        /\ pc \in BatchPcs =>
              /\ pc' \in BatchPcs =>
                    /\ files' = files
                    /\ \/ fileIdx' = fileIdx /\ pc = "batchRead" /\ pc' = "batchAnalyze"
                       \/ fileIdx' = fileIdx + 1 /\ pc' = "batchRead"
                       \/ fileIdx' = fileIdx /\ pc' = pc /\ pending' = pending
              /\ pc' \notin BatchPcs => (fileIdx = Len(files) /\ pc' = "idle")
              /\ (\E parsed \in AnalysisResponses : BatchAnalyzeReturns(TRUE, parsed)) =>
                    /\ Len(knowledgeSources') = Len(knowledgeSources) + 1
                    /\ SubSeq(knowledgeSources', 1, Len(knowledgeSources)) = knowledgeSources
                    /\ knowledgeSources'[Len(knowledgeSources')].fileName = files[fileIdx].name
              /\ ~(\E parsed \in AnalysisResponses : BatchAnalyzeReturns(TRUE, parsed)) =>
                    knowledgeSources' = knowledgeSources
      ]_vars

\* C15 witness: the attempt for the first file of a batch ended without storing it and
\* the analysis call for the second file is in flight.
C15_Witness ==
    /\ pc = "batchAnalyze"
    /\ fileIdx = 2
    /\ ~NamePresent(files[1].name)

\* C16: every step that changes the store leaves no chat session, and whenever a
\* session exists its standing instruction lists exactly the documents of the store,
\* in store order; the store only grows by documents with new names, so the session
\* was created after the latest successful ingestion.
C16_SessionMatchesStore ==
    [][ /\ knowledgeSources' # knowledgeSources => chat' = NoChat
        /\ chat' # NoChat => chat'.instruction = ChatContext(knowledgeSources')
      ]_vars

\* C16 witness: a first question went to a session over one document, a second
\* document was ingested, and the session that now exists was built over both.
C16_Witness ==
    /\ Len(chatRequests) = 2
    /\ chatRequests[1].sources = 1
    /\ chatRequests[2].sources = 2
    /\ chatRequests[2].history = 0
    /\ chat # NoChat
    /\ Len(chat.instruction) = 2

\* C17 as claimed: of two consecutive questions asked over the same store, the first
\* of which was answered, the second goes to the session that answered the first:
\* the session it is sent to has exactly one more message behind it.
C17_Original ==
    \A k \in 2..Len(chatRequests) :
        (chatRequests[k].sources = chatRequests[k - 1].sources
         /\ chatRequests[k - 1].outcome = "answered")
            => chatRequests[k].history = chatRequests[k - 1].history + 1

\* C18 as claimed, for the ingestion paths: no analysis call is in flight for an
\* article text that is empty after trimming.
C18_Original == pc \in AnalyzePcs => pending.articleText # <<>>

\* the suggestion behind the card at position k of the panel
CardSuggestion(k) == analysisSuggestions[suggestionsPanel.cards[k].index + 1]

C20_Original ==
    [][ \A k \in 1..MaxSuggestions :
            (HandleSuggestionClick(k, "accept")
             /\ ~Includes(InnerText(writingEditor), CardSuggestion(k).issue))
                => InnerText(writingEditor') = InnerText(writingEditor)
      ]_vars

\* the payloads of the regions of the editor, in document order
Payloads(html) ==
    [r \in 1..NumRegions(html) |->
        [original |-> Region(html, r).original, suggestion |-> Region(html, r).suggestion]]

\* C21 as claimed: accepting a suggestion whose issue occurs in the text of the draft
\* replaces the first occurrence in the text by the suggestion and leaves the rest of
\* the text and the payloads of the similarity regions as they were.
C21_Original ==
    [][ \A k \in 1..MaxSuggestions :
            (HandleSuggestionClick(k, "accept")
             /\ Includes(InnerText(writingEditor), CardSuggestion(k).issue))
                => /\ InnerText(writingEditor') =
                          ReplaceFirst(InnerText(writingEditor), CardSuggestion(k).issue,
                                       CardSuggestion(k).suggestion)
                   /\ Payloads(writingEditor') = Payloads(writingEditor)
      ]_vars

\* the matches whose sentence occurs in the text of the draft
PresentMatches(results, html) ==
    SelectSeq(results, LAMBDA m : Includes(InnerText(html), m.original_sentence))

\* C22: when a similarity check settles, the matches whose sentence does not occur in
\* the draft add no region and change nothing: the editor is what highlighting the
\* other matches alone makes of it, it holds at most one region per such match, the
\* text of the draft is as before, and the operation ends normally.
C22_AbsentMatchIgnored ==
    [][ SimilarityReturns(TRUE, simResults') =>
            LET present == PresentMatches(simResults', writingEditor)
            IN  /\ writingEditor' = HighlightAll(writingEditor, present)
                /\ NumRegions(writingEditor') <= Len(present)
                /\ present = <<>> => writingEditor' = writingEditor
                /\ InnerText(writingEditor') = InnerText(writingEditor)
                /\ pc' = "idle" /\ ~isLoading'
      ]_vars

\* C22 witness: a check has settled whose first match is not in the draft and whose
\* second match is, and the second match is highlighted.
C22_Witness ==
    /\ pc = "idle"
    /\ Len(simResults) = 2
    /\ ~Includes(InnerText(writingEditor), simResults[1].original_sentence)
    /\ Includes(InnerText(writingEditor), simResults[2].original_sentence)
    /\ NumRegions(writingEditor) = 1
    /\ BlockText(Region(writingEditor, 1).content) = simResults[2].original_sentence

\* C23: accepting the region the tooltip is open for puts exactly its rewritten
\* suggestion, as plain text, in its place; dismissing it puts its own text there;
\* either way the region (with what was inside it) is gone and the markup before and
\* after it is as it was.
C23_AcceptDismissReplaceRegion ==
    [][ (AcceptSimilaritySuggestion \/ DismissSimilaritySuggestion) =>
            LET reg == Region(writingEditor, activeSimilarityHighlight)
                pre == SubSeq(writingEditor, 1, reg.start - 1)
                post == SubSeq(writingEditor, reg.close + 4, Len(writingEditor))
                mid == SubSeq(writingEditor', Len(pre) + 1,
                              Len(writingEditor') - Len(post))
                gone == activeSimilarityHighlight
                        ..(activeSimilarityHighlight + NumRegions(reg.content))
                kept == SelectSeq([r \in 1..NumRegions(writingEditor) |-> r],
                                  LAMBDA r : r \notin gone)
            IN  /\ IsPrefix(pre, writingEditor')
                /\ Len(writingEditor') >= Len(pre) + Len(post)
                /\ SubSeq(writingEditor', Len(writingEditor') - Len(post) + 1,
                          Len(writingEditor')) = post
                /\ \A k \in 1..Len(mid) : mid[k] # "<"
                /\ AcceptSimilaritySuggestion => Decode(mid) = reg.suggestion
                /\ DismissSimilaritySuggestion => Decode(mid) = BlockText(reg.content)
                /\ Payloads(writingEditor') =
                       [j \in 1..Len(kept) |-> Payloads(writingEditor)[kept[j]]]
      ]_vars

\* C23 witness: of the two regions of a check, in the two paragraphs of the draft, the
\* first was accepted and the second dismissed.
C23_Witness ==
    /\ Len(simResults) = 2
    /\ NumRegions(writingEditor) = 0
    /\ InnerText(writingEditor) =
           <<Word22, " ">> \o simResults[1].rewritten_suggestion
           \o <<"\n">> \o simResults[2].original_sentence \o <<Word23>>

\* the r-th region of the editor was made from one of the matches
FromResults(html, r, results) ==
    \E region \in {Region(html, r)} :
        \E k \in 1..Len(results) :
            /\ region.original = OriginalPayload(results[k])
            /\ region.suggestion = results[k].rewritten_suggestion
            /\ BlockText(region.content) = results[k].original_sentence

\* C24: a similarity check that starts its call leaves no region in the editor and
\* the text of the draft as it was; no region appears while the call is in flight;
\* and when the call settles every region of the editor was made from one of the
\* matches that call returned.
C24_OnlyCurrentRegions ==
    /\ [][ (isLoading' /\ HandleSimilarityCheck) =>
                /\ NumRegions(writingEditor') = 0
                /\ InnerText(writingEditor') = InnerText(writingEditor)
         ]_vars
    /\ [](pc = "similarity" => NumRegions(writingEditor) = 0)
    /\ [][ (pc = "similarity" /\ pc' = "idle") =>
                \A r \in 1..NumRegions(writingEditor') :
                    FromResults(writingEditor', r, simResults')
         ]_vars

\* C24 witness: a check is in flight whose predecessor had found both of its matches
\* in the draft; the draft is as the review wrote it and holds no region.
C24_Witness ==
    /\ pc = "similarity"
    /\ Len(simResults) = 2
    /\ Len(PresentMatches(simResults, writingEditor)) = 2
    /\ NumRegions(writingEditor) = 0
    /\ InnerText(writingEditor) = DraftLong

\* C28 as claimed: when a similarity check settles, the editor holds one region for
\* each match whose sentence is in the draft, and no region lies inside another.
C28_Original ==
    [][ SimilarityReturns(TRUE, simResults') =>
            /\ NumRegions(writingEditor') = Len(PresentMatches(simResults', writingEditor))
            /\ \A r \in 1..NumRegions(writingEditor') :
                   NumRegions(Region(writingEditor', r).content) = 0
      ]_vars

\* the steps the user takes in the writing assistant
AssistTrigger ==
    \/ \E k \in 1..MaxSuggestions, button \in {"accept", "reject"} :
            HandleSuggestionClick(k, button)
    \/ AcceptSimilaritySuggestion
    \/ DismissSimilaritySuggestion
    \/ HandleAnalyzeText
    \/ HandleSimilarityCheck
    \/ HandleGenerateReview(<<"q">>, "concise")

\* C25 as claimed: while an operation is in progress no step of the user changes the
\* store, the draft history, the draft (its text and its similarity regions), the
\* pending suggestions or the chat session.
C25_Original ==
    [][ (isLoading /\ AssistTrigger) =>
            UNCHANGED <<knowledgeSources, draftHistory, writingEditor, analysisSuggestions,
                        chat>>
      ]_vars

\* the handlers that issue calls to the model service (or read a file)
CallTrigger ==
    \/ HandleProcessArticle
    \/ \E fs \in FileSelections : HandleFileSelect(fs)
    \/ \E topic \in Topics, reviewLength \in ReviewLengths :
            HandleGenerateReview(topic, reviewLength)
    \/ \E question \in Questions : HandleAskQuestion(question)
    \/ HandleAnalyzeText
    \/ HandleSimilarityCheck

\* C26: at most one call is in flight: while a call is awaited the busy flag is set
\* and every control that starts an operation with calls is disabled, so that no
\* handler that issues a call runs before the awaited call has settled.
C26_OneCallInFlight ==
    /\ [](pc # "idle" =>
            /\ isLoading
            /\ disabled.processButton /\ disabled.fileInput
            /\ disabled.generateReviewButton /\ disabled.analyzeTextButton
            /\ disabled.similarityCheckButton /\ disabled.chatButton)
    /\ [][ CallTrigger => pc = "idle" ]_vars

\* C26 witness: the call of a similarity check is in flight, with a store, a draft and
\* a chat session that the other operations could work on.
C26_Witness ==
    /\ pc = "similarity"
    /\ knowledgeSources # <<>>
    /\ chat # NoChat
    /\ articleInput # <<>>

\* a step in which the last awaited call of an operation settles
Settled == pc # "idle" /\ pc' = "idle"

\* C27: the busy flag is set only while a call is awaited, and every awaited call
\* settling at last, it is cleared again.  The step that ends an operation, normally
\* or with a failure, leaves the system not busy with the file input and the review,
\* proofreading and similarity buttons enabled and the chat enabled when the store
\* holds a document; after a failed analysis of pasted text the Process button is
\* enabled too, the text still in the text area.
C27_BusyCleared ==
    /\ [](isLoading <=> pc # "idle")
    /\ [][ Settled =>
                /\ ~isLoading'
                /\ ~disabled'.fileInput /\ ~disabled'.generateReviewButton
                /\ ~disabled'.analyzeTextButton /\ ~disabled'.similarityCheckButton
                /\ disabled'.chatButton <=> knowledgeSources' = <<>>
                /\ disabled'.questionInput <=> knowledgeSources' = <<>>
         ]_vars
    /\ [][ (\E parsed \in AnalysisResponses : ProcessAnalyzeReturns(FALSE, parsed)) =>
                ~disabled'.processButton /\ articleInput' = articleInput
         ]_vars
    /\ (isLoading ~> ~isLoading)

\* C27 witness: a review generation has failed and the last chat request has failed,
\* and the system is not busy.
C27_Witness ==
    /\ ~isLoading
    /\ pc = "idle"
    /\ chatRequests # <<>>
    /\ chatRequests[Len(chatRequests)].outcome = "failed"
    /\ reviewProgressLog # <<>>
    /\ LastLog = ErrorEntry

\* the Process button can be clicked with text in the text area and no file selected
PasteReady ==
    /\ ~disabled.processButton
    /\ currentFileName = <<>>
    /\ Trim(articleInput) # <<>>

\* C29 as claimed: whenever pasted text can be processed, the name generated for it is
\* the name of no stored document, so that the click on Process is not rejected as a
\* duplicate.
C29_Original == PasteReady => ~IsDuplicate(knowledgeSources, PastedName(knowledgeSources))
====
